---- MODULE Spec2Model ----
(***************************************************************************)
(* Gameplay simulation core of the Infinite Tower engine: the per-agent    *)
(* AI state machine (systems/ai.py), the combat resolver                   *)
(* (systems/combat.py), the hostile agent (entities/enemy.py) and the      *)
(* enemy phase of the gameplay tick (game.py).                             *)
(*                                                                         *)
(* Numbers.  Python floats are modelled in fixed point: angles are whole   *)
(* degrees, lengths are whole pixels, a product with 0.5 or 1.5 is kept    *)
(* exact by working in halves, and int() is truncation toward zero.        *)
(***************************************************************************)
EXTENDS Integers, Naturals, Sequences, FiniteSets, TLC

\* ------------------------------------------------------------------------
\* Small arithmetic helpers (Python built-ins)
\* ------------------------------------------------------------------------

\* Python max(a, b) and min(a, b)
Max(a, b) == IF a >= b THEN a ELSE b

Min(a, b) == IF a <= b THEN a ELSE b

\* Python abs(n)
Abs(n) == IF n >= 0 THEN n ELSE -n

\* Python int(n / 2.0): truncation toward zero of a value given in halves
IntOfHalves(n) == IF n >= 0 THEN n \div 2 ELSE -((-n) \div 2)

\* ------------------------------------------------------------------------
\* CombatSystem (systems/combat.py)
\* ------------------------------------------------------------------------

\* CombatSystem.critical_multiplier = 1.5, in halves
critical_multiplier_x2 == 3

\* the block factor 0.5 of perform_attack, in halves
block_factor_x2 == 1

\* CombatSystem.damage_multiplier = 1.0 and the default attacker_power = 1.0
damage_multiplier == 1

DamageTypes == {"physical", "true"}

\* CombatSystem.calculate_damage, faulty variant: the minimum of 1 is dropped
calculate_damage_nofloor(base_damage, defender_defense, damage_type) ==
    IF damage_type = "true"
    THEN base_damage * damage_multiplier
    ELSE IntOfHalves(2 * base_damage * damage_multiplier - defender_defense)

\* CombatSystem.calculate_damage, faulty variant: defense*0.5 is rounded down
\* before it is subtracted
calculate_damage_intdef(base_damage, defender_defense, damage_type) ==
    IF damage_type = "true"
    THEN base_damage * damage_multiplier
    ELSE Max(1, base_damage * damage_multiplier - (defender_defense \div 2))

\* CombatSystem.calculate_damage, faulty variant: the damage reduction is
\* added instead of subtracted
calculate_damage_adddef(base_damage, defender_defense, damage_type) ==
    IF damage_type = "true"
    THEN base_damage * damage_multiplier
    ELSE Max(1, IntOfHalves(2 * base_damage * damage_multiplier + defender_defense))

\* CombatSystem.calculate_damage
\*   damage_reduction = defender_defense * 0.5
\*   effective_damage = base_damage * attacker_power * damage_multiplier
\*                      - damage_reduction
\*   return max(1, int(effective_damage))
calculate_damage(base_damage, defender_defense, damage_type) ==
    IF damage_type = "true"
    THEN base_damage * damage_multiplier
    ELSE Max(1, IntOfHalves(2 * base_damage * damage_multiplier - defender_defense))

\* the base damage of perform_attack, faulty variant: the critical multiplier
\* is never applied
attack_base_nocrit(attack_power, is_critical, is_blocked) ==
    IF is_blocked THEN IntOfHalves(attack_power * block_factor_x2) ELSE attack_power

\* base damage of perform_attack after the critical and the block step:
\*   if is_critical: base_damage = int(base_damage * critical_multiplier)
\*   if is_blocked:  base_damage = int(base_damage * 0.5)
attack_base(attack_power, is_critical, is_blocked) ==
    LET b1 == IF is_critical
              THEN IntOfHalves(attack_power * critical_multiplier_x2)
              ELSE attack_power
    IN  IF is_blocked THEN IntOfHalves(b1 * block_factor_x2) ELSE b1

\* CombatSystem.perform_attack: the AttackResult and the defender's new health
perform_attack(attack_power, defense, health, is_critical, is_blocked, damage_type) ==
    LET damage == calculate_damage(attack_base(attack_power, is_critical, is_blocked),
                                   defense, damage_type)
    IN  [damage          |-> damage,
         was_critical    |-> is_critical,
         was_blocked     |-> is_blocked,
         target_defeated |-> (health - damage <= 0),
         health          |-> health - damage]

\* CombatSystem.heal: target.health = min(max_health, health + heal_amount)
heal(health, max_health, heal_amount) == Min(max_health, health + heal_amount)


\* ------------------------------------------------------------------------
\* The level and the positions handed to the model
\* ------------------------------------------------------------------------

\* position the agent is constructed at
EntityStart == << 100, 100 >>

\* position the player is constructed at: [SCREEN_WIDTH // 2, SCREEN_HEIGHT // 2]
PlayerStart == << 960, 540 >>

\* positions of the player handed to AI.update: in front and in attack range,
\* in front at a distance, in front behind the wall, straight to the side,
\* on the edge of the widest cones, and beyond every detection range
PlayerSpots == { << 140, 100 >>, << 400, 100 >>, << 400, 250 >>,
                 << 100, 400 >>, << 300, -100 >>, << 1300, 100 >> }

\* the static obstacles of the level (Wall.rect)
Walls == { [x |-> 240, y |-> 150, w |-> 20, h |-> 50] }

\* ------------------------------------------------------------------------
\* Geometry (math.cos, math.atan2, pygame.Rect, Physics.raycast)
\* ------------------------------------------------------------------------

\* math.cos of a whole degree in 0..90, times 10^6
CosTable ==
    << 1000000, 999848, 999391, 998630, 997564, 996195, 994522, 992546, 990268, 987688,
       984808, 981627, 978148, 974370, 970296, 965926, 961262, 956305, 951057, 945519,
       939693, 933580, 927184, 920505, 913545, 906308, 898794, 891007, 882948, 874620,
       866025, 857167, 848048, 838671, 829038, 819152, 809017, 798636, 788011, 777146,
       766044, 754710, 743145, 731354, 719340, 707107, 694658, 681998, 669131, 656059,
       642788, 629320, 615661, 601815, 587785, 573576, 559193, 544639, 529919, 515038,
       500000, 484810, 469472, 453990, 438371, 422618, 406737, 390731, 374607, 358368,
       342020, 325568, 309017, 292372, 275637, 258819, 241922, 224951, 207912, 190809,
       173648, 156434, 139173, 121869, 104528, 87156, 69756, 52336, 34899, 17452,
       0 >>

\* math.cos(math.radians(a)) * 10^6 for a whole degree a
Cos6(a) ==
    LET d == a % 360
    IN  IF d <= 90 THEN CosTable[d + 1]
        ELSE IF d <= 180 THEN -CosTable[180 - d + 1]
        ELSE IF d <= 270 THEN -CosTable[d - 180 + 1]
        ELSE CosTable[360 - d + 1]

\* math.sin(math.radians(a)) * 10^6 for a whole degree a
Sin6(a) == Cos6(a + 270)

\* math.degrees(math.atan2(dy, dx)) % 360, to the nearest whole degree: the
\* degree whose unit vector is best aligned with (dx, dy); atan2(0, 0) = 0
Atan2Compute(dy, dx) ==
    IF dx = 0 /\ dy = 0 THEN 0
    ELSE LET Dot(a) == dx * Cos6(a) + dy * Sin6(a)
         IN  CHOOSE a \in 0..359 :
                /\ Dot(a) > 0
                /\ Dot(a) >= Dot(a + 1)
                /\ Dot(a) > Dot(a + 359)

\* the vectors between the agent's start and the positions of the model,
\* whose bearings are tabulated once
KnownOffsets ==
    { << 40, 0 >>, << 300, 0 >>, << 300, 150 >>, << 0, 300 >>, << 200, -200 >>,
      << 1200, 0 >>, << 100, 0 >>, << 0, 0 >>, << 0, 100 >>,
      << 860, 440 >> }

KnownVectors == KnownOffsets \cup { << -v[1], -v[2] >> : v \in KnownOffsets }

BearingTable == [v \in KnownVectors |-> Atan2Compute(v[2], v[1])]

\* math.degrees(math.atan2(dy, dx)) % 360 (tabulated for the known vectors)
Atan2Deg(dy, dx) ==
    IF << dx, dy >> \in KnownVectors
    THEN BearingTable[<< dx, dy >>]
    ELSE Atan2Compute(dy, dx)

\* squared Euclidean distance;  sqrt(dx*dx + dy*dy) <= r  iff  DistSq <= r*r
DistSq(p, q) == (q[1] - p[1]) * (q[1] - p[1]) + (q[2] - p[2]) * (q[2] - p[2])

\* AI._calculate_distance(p, q) <= r, for r >= 0
DistanceLE(p, q, r) == DistSq(p, q) <= r * r

\* AI._calculate_distance(p, q) < r, for r >= 0
DistanceLT(p, q, r) == DistSq(p, q) < r * r

\* Python int(n / d) for d > 0: truncation toward zero
IntDiv(n, d) == IF n >= 0 THEN n \div d ELSE -((-n) \div d)

\* pygame.Rect.collidepoint: left <= x < right and top <= y < bottom
collidepoint(rect, pt) ==
    /\ rect.x <= pt[1] /\ pt[1] < rect.x + rect.w
    /\ rect.y <= pt[2] /\ pt[2] < rect.y + rect.h

\* number of sample steps of Physics.raycast
raycast_steps == 100

\* the k-th sample point of Physics.raycast: start + k * (end - start) / steps,
\* truncated by int()
RaySample(start, end, k) ==
    << IntDiv(raycast_steps * start[1] + k * (end[1] - start[1]), raycast_steps),
       IntDiv(raycast_steps * start[2] + k * (end[2] - start[2]), raycast_steps) >>

\* Physics.raycast(start, end, obstacles) is not None: some sample point of
\* the segment lies inside an obstacle rectangle
raycast_compute(start, end, obstacles) ==
    \E k \in 1..raycast_steps :
        \E o \in obstacles : collidepoint(o, RaySample(start, end, k))

\* the rays from the agent's start to the player positions, cast once
RayTable == [p \in PlayerSpots |-> raycast_compute(EntityStart, p, Walls)]

\* Physics.raycast(start, end, obstacles) is not None (tabulated for the rays
\* from the agent's start)
raycast_hit(start, end, obstacles) ==
    IF start = EntityStart /\ end \in PlayerSpots /\ obstacles = Walls
    THEN RayTable[end]
    ELSE raycast_compute(start, end, obstacles)

\* ------------------------------------------------------------------------
\* AI (systems/ai.py)
\* ------------------------------------------------------------------------

AIStates == {"idle", "patrol", "chase", "attack", "flee", "wander", "dead"}

AIBehaviorTypes == {"aggressive", "defensive", "coward", "tank", "ranger"}

\* "no position": the value None of last_known_target_position / wander_target
NonePos == << >>

\* AI._configure_behavior: the archetype parameters; the flee threshold is
\* kept in hundredths (0.15 -> 15), vision_range = detection_range
BehaviorConfig(bt) ==
    CASE bt = "aggressive" -> [detection_range |-> 900,  attack_range |-> 50,
                               flee_threshold_pct |-> 0,  fov_degrees |-> 90,
                               vision_range |-> 900]
      [] bt = "defensive"  -> [detection_range |-> 600,  attack_range |-> 60,
                               flee_threshold_pct |-> 15, fov_degrees |-> 80,
                               vision_range |-> 600]
      [] bt = "coward"     -> [detection_range |-> 700,  attack_range |-> 40,
                               flee_threshold_pct |-> 50, fov_degrees |-> 100,
                               vision_range |-> 700]
      [] bt = "tank"       -> [detection_range |-> 600,  attack_range |-> 70,
                               flee_threshold_pct |-> 0,  fov_degrees |-> 70,
                               vision_range |-> 600]
      [] bt = "ranger"     -> [detection_range |-> 1000, attack_range |-> 150,
                               flee_threshold_pct |-> 30, fov_degrees |-> 110,
                               vision_range |-> 1000]

\* AI.__init__: frames to search before giving up
search_duration == 180

\* AI.__init__: frames between two wander targets
wander_cooldown_max == 120

\* AI.__init__: frames between two AI attack triggers
attack_cooldown_max == 60

\* AI.__init__: frames to wait at a patrol point
patrol_wait_time == 60

\* AI.patrol / AI.wander: arrival radius
arrival_radius == 10

\* AI.decide_action: buffer added to the hitbox range
optimal_distance_buffer == 20

\* Enemy.is_alive
is_alive(e) == e.health > 0

\* AI._should_flee:  health / max_health < flee_health_threshold
should_flee(e, cfg) == e.health * 100 < cfg.flee_threshold_pct * e.max_health

\* AI._player_in_vision_cone, faulty variant: the difference is compared with
\* the full field of view instead of half of it
player_in_vision_cone_fullfov(e, ppos, cfg) ==
    IF DistSq(e.position, ppos) > cfg.vision_range * cfg.vision_range THEN FALSE
    ELSE LET to_player == Atan2Deg(ppos[2] - e.position[2], ppos[1] - e.position[1])
             facing    == e.direction_angle % 360
             diff      == Abs(((to_player - facing + 540) % 360) - 180)
         IN  diff <= cfg.fov_degrees

\* AI._player_in_vision_cone
\*   dist > vision_range -> False
\*   diff = abs((to_player - facing + 540) % 360 - 180)
\*   return diff <= fov_degrees / 2
player_in_vision_cone(e, ppos, cfg) ==
    IF DistSq(e.position, ppos) > cfg.vision_range * cfg.vision_range THEN FALSE
    ELSE LET to_player == Atan2Deg(ppos[2] - e.position[2], ppos[1] - e.position[1])
             facing    == e.direction_angle % 360
             diff      == Abs(((to_player - facing + 540) % 360) - 180)
         IN  2 * diff <= cfg.fov_degrees

\* AI.decide_action, lines 182-193: has_los
has_line_of_sight(e, ppos, obstacles, in_cone) ==
    IF obstacles.is_none THEN TRUE
    ELSE IF in_cone THEN ~raycast_hit(e.position, ppos, obstacles.rects)
    ELSE FALSE

\* the state chosen when nothing is chased: PATROL with waypoints, else WANDER
PatrolOrWander(a) == IF Len(a.patrol_points) > 0 THEN "patrol" ELSE "wander"

\* AI.decide_action: the new AI record
decide_action(a, e, ppos, obstacles, cfg) ==
    LET in_cone == player_in_vision_cone(e, ppos, cfg)
        has_los == has_line_of_sight(e, ppos, obstacles, in_cone)
    IN  IF in_cone /\ has_los
        THEN [a EXCEPT !.state = "chase", !.target = "player",
                       !.last_known_target_position = ppos,
                       !.search_timer = 0]
        ELSE IF should_flee(e, cfg)
        THEN [a EXCEPT !.state = "flee", !.target = "player"]
        ELSE IF DistanceLE(e.position, ppos, cfg.detection_range)
        THEN IF ~(in_cone /\ has_los)
             THEN [a EXCEPT !.last_known_target_position = ppos,
                            !.state = PatrolOrWander(a)]
             ELSE LET attack_hitbox_range == e.attack_range
                      optimal_distance ==
                          attack_hitbox_range + e.size + optimal_distance_buffer
                      st == IF DistanceLE(e.position, ppos, optimal_distance)
                            THEN IF /\ DistanceLE(e.position, ppos, attack_hitbox_range)
                                    /\ a.attack_cooldown = 0
                                 THEN "attack" ELSE "chase"
                            ELSE "chase"
                  IN  [a EXCEPT !.target = "player",
                                !.last_known_target_position = ppos,
                                !.state = st]
        ELSE IF a.target # "none"
        THEN IF a.search_timer < search_duration
             THEN [a EXCEPT !.state = "chase",
                            !.search_timer = a.search_timer + 1]
             ELSE [a EXCEPT !.target = "none",
                            !.last_known_target_position = NonePos,
                            !.search_timer = 0,
                            !.state = "wander"]
        ELSE [a EXCEPT !.state = PatrolOrWander(a)]

\* AI.move_towards_position: desired facing toward target_pos, intent forward
move_towards_position(e, target_pos) ==
    [e EXCEPT !.desired_angle = Atan2Deg(target_pos[2] - e.position[2],
                                         target_pos[1] - e.position[1]),
              !.move_intent = 1]

\* AI.chase_target: toward the live target, else toward the last known position
chase_target(a, e, ppos) ==
    IF a.target = "none"
    THEN IF a.last_known_target_position # NonePos
         THEN move_towards_position(e, a.last_known_target_position)
         ELSE e
    ELSE move_towards_position(e, ppos)

\* AI.attack_target: the cardinal direction faced
AttackDirection(e, ppos) ==
    LET dx == ppos[1] - e.position[1]
        dy == ppos[2] - e.position[2]
    IN  IF Abs(dx) > Abs(dy)
        THEN (IF dx > 0 THEN "right" ELSE "left")
        ELSE (IF dy > 0 THEN "down" ELSE "up")

\* AI.attack_target: <<ai, entity>> after the call
attack_target(a, e, ppos) ==
    IF a.attack_cooldown = 0
    THEN << [a EXCEPT !.attack_cooldown = attack_cooldown_max],
            [e EXCEPT !.is_attacking = TRUE, !.direction = AttackDirection(e, ppos)] >>
    ELSE << a, e >>

\* AI.flee_from_target, faulty variant: the distance is not tested
\* (atan2(0, 0) is 0)
flee_from_target_untested(e, ppos) ==
    LET dx == e.position[1] - ppos[1]
        dy == e.position[2] - ppos[2]
    IN  [e EXCEPT !.desired_angle = IF dx * dx + dy * dy > 0
                                    THEN (Atan2Deg(dy, dx) + 180) % 360
                                    ELSE 180,
                  !.move_intent = 1]

\* AI.flee_from_target
\*   dx, dy = entity - player;  if distance > 0:
\*   ang = (degrees(atan2(dy, dx)) + 180) % 360
flee_from_target(e, ppos) ==
    LET dx == e.position[1] - ppos[1]
        dy == e.position[2] - ppos[2]
    IN  IF dx * dx + dy * dy > 0
        THEN [e EXCEPT !.desired_angle = (Atan2Deg(dy, dx) + 180) % 360,
                       !.move_intent = 1]
        ELSE e

\* AI.patrol, faulty variant: the cursor is advanced without the modulo
patrol_nowrap(a, e) ==
    IF Len(a.patrol_points) = 0 THEN << a, e >>
    ELSE IF a.patrol_wait_counter > 0
    THEN << [a EXCEPT !.patrol_wait_counter = a.patrol_wait_counter - 1], e >>
    ELSE LET target_point ==
                 a.patrol_points[Min(a.current_patrol_index + 1, Len(a.patrol_points))]
         IN  IF DistanceLT(e.position, target_point, arrival_radius)
             THEN << [a EXCEPT !.patrol_wait_counter = patrol_wait_time,
                               !.current_patrol_index = a.current_patrol_index + 1],
                     e >>
             ELSE << a, move_towards_position(e, target_point) >>

\* AI.patrol: <<ai, entity>> after the call
patrol(a, e) ==
    IF Len(a.patrol_points) = 0 THEN << a, e >>
    ELSE IF a.patrol_wait_counter > 0
    THEN << [a EXCEPT !.patrol_wait_counter = a.patrol_wait_counter - 1], e >>
    ELSE LET target_point == a.patrol_points[a.current_patrol_index + 1]
         IN  IF DistanceLT(e.position, target_point, arrival_radius)
             THEN << [a EXCEPT !.patrol_wait_counter = patrol_wait_time,
                               !.current_patrol_index =
                                   (a.current_patrol_index + 1) % Len(a.patrol_points)],
                     e >>
             ELSE << a, move_towards_position(e, target_point) >>

\* AI.wander: <<ai, entity>> after the call; angle (whole degrees) and distance
\* are the two random.uniform draws
wander(a, e, angle, distance) ==
    LET pick == a.wander_target = NonePos \/ a.wander_cooldown = 0
        wt   == IF pick
                THEN << e.position[1] + IntDiv(Cos6(angle) * distance, 1000000),
                        e.position[2] + IntDiv(Sin6(angle) * distance, 1000000) >>
                ELSE a.wander_target
        a1   == IF pick
                THEN [a EXCEPT !.wander_target = wt,
                               !.wander_cooldown = wander_cooldown_max]
                ELSE a
    IN  IF DistanceLT(e.position, wt, arrival_radius)
        THEN << [a1 EXCEPT !.wander_target = NonePos], e >>
        ELSE << a1, move_towards_position(e, wt) >>

\* AI.update, the dispatch on the state decide_action has chosen: <<ai, entity>>
\* after the behaviour ran.  decide_action assigns a state other than IDLE on
\* every path, so idle_behavior is never dispatched.
execute_state(a, e, ppos, angle, distance) ==
    CASE a.state = "patrol" -> patrol(a, e)
      [] a.state = "chase"  -> << a, chase_target(a, e, ppos) >>
      [] a.state = "attack" -> attack_target(a, e, ppos)
      [] a.state = "flee"   -> << a, flee_from_target(e, ppos) >>
      [] a.state = "wander" -> wander(a, e, angle, distance)
      [] OTHER              -> << a, e >>

\* AI.update, the cooldowns counted down before the decision
tick_cooldowns(a) ==
    [a EXCEPT !.attack_cooldown = IF @ > 0 THEN @ - 1 ELSE @,
              !.wander_cooldown = IF @ > 0 THEN @ - 1 ELSE @]

\* AI.update, the entity with its move intent reset
reset_intent(e) == [e EXCEPT !.move_intent = 0]

\* AI.update for a live entity: <<ai, entity>> after the call
ai_update_alive(a, e, ppos, obstacles, cfg, angle, distance) ==
    execute_state(decide_action(tick_cooldowns(a), reset_intent(e), ppos,
                                obstacles, cfg),
                  reset_intent(e), ppos, angle, distance)

\* AI.update: <<ai, entity>> after the call
ai_update(a, e, ppos, obstacles, cfg, angle, distance) ==
    IF ~is_alive(e)
    THEN << [a EXCEPT !.state = "dead"], e >>
    ELSE ai_update_alive(a, e, ppos, obstacles, cfg, angle, distance)


\* ------------------------------------------------------------------------
\* Bounds and input domains
\* ------------------------------------------------------------------------

\* number of AI.update calls during which the caller varies the player
\* position and applies combat operations; afterwards the player stands still
InputWindow == 2

\* number of attack / heal operations applied to the agent
MaxCombatOps == 2

\* health the agent is constructed with (Enemy(name, health, ...))
EntityHealth == 15

\* heal_amount passed to CombatSystem.heal
HealAmount == 2

\* the obstacles argument Game._update_gameplay passes: self.walls
ObstaclesArg == [is_none |-> FALSE, rects |-> Walls]

\* waypoint lists handed to AI.set_patrol_points
PatrolRoutes == { << << 100, 100 >>, << 200, 100 >> >>, << << 100, 100 >> >> }

\* the ways the agent faces when its AI is run (degrees): ahead along +x, and
\* just short of a full turn so that the cone straddles 0
Facings == {0, 350}

\* draws of random.uniform(0, 2*pi) (as whole degrees) and
\* random.uniform(50, 150) in AI.wander
WanderAngles == {0, 90}

WanderDistances == {100}

\* outcomes of  random.random() < chance  for a chance given in percent
RollOutcomes(chance_pct) ==
    IF chance_pct <= 0 THEN {FALSE}
    ELSE IF chance_pct >= 100 THEN {TRUE}
    ELSE BOOLEAN

\* CombatSystem.critical_chance = 0.15, used for an attacker without
\* crit_chance (the player), in percent
critical_chance_pct == 15

\* largest attack_power and defense of a stand-alone perform_attack call
MaxAttackPower == 12

MaxDefense == 12

\* a defense far above every attack power (the floor of 1 decides the damage)
HugeDefense == 100

\* health of the defender of a stand-alone perform_attack call
DefenderHealth == 12

\* ------------------------------------------------------------------------
\* State
\* ------------------------------------------------------------------------

VARIABLES
    ai,        \* the AI object of the agent (AI.__init__)
    entity,    \* the agent the AI steers (Enemy.__init__)
    player,    \* the player the agent is updated against
    last,      \* what the latest AI.update call computed (history)
    calls,     \* AI.update calls so far, saturating at InputWindow
    ops,       \* combat operations applied to the agent so far
    combat,    \* inputs and result of a stand-alone perform_attack call
    game       \* the Game object during gameplay: player, enemies, counters

vars == << ai, entity, player, last, calls, ops, combat, game >>

\* AI.__init__ followed by _configure_behavior
InitAIRecord(bt) ==
    [ behavior_type               |-> bt,
      state                       |-> "idle",
      target                      |-> "none",
      last_known_target_position  |-> NonePos,
      search_timer                |-> 0,
      attack_cooldown             |-> 0,
      wander_cooldown             |-> 0,
      wander_target               |-> NonePos,
      patrol_points               |-> << >>,
      current_patrol_index        |-> 0,
      patrol_wait_counter         |-> 0 ]

\* Enemy.__init__ for EnemyType.BASIC; the AI only reads direction_angle, which
\* Enemy.update turns toward the desired angle, so the entity may face any way
InitEntityRecord(facing) ==
    [ health          |-> EntityHealth,
      max_health      |-> EntityHealth,
      defense         |-> 0,
      block_chance_pct |-> 0,
      position        |-> EntityStart,
      size            |-> 28,
      direction       |-> "down",
      direction_angle |-> facing,
      desired_angle   |-> facing,
      move_intent     |-> 0,
      is_attacking    |-> FALSE,
      attack_range    |-> 50 ]

\* Player.__init__
InitPlayerRecord(pos) ==
    [ position     |-> pos,
      attack_power |-> 10,
      defense      |-> 0 ]

NoCall ==
    [ called |-> FALSE, alive |-> FALSE, in_cone |-> FALSE, has_los |-> FALSE,
      flee |-> FALSE, in_detection |-> FALSE, in_attack_range |-> FALSE,
      cooldown |-> 0, had_target |-> FALSE, has_waypoints |-> FALSE,
      prev_state |-> "idle",
      prev_search_timer |-> 0, prev_last_known |-> NonePos,
      prev_visible_at |-> NonePos, visible_at |-> NonePos ]

\* no stand-alone perform_attack call is under way
IdleCombat ==
    [ pc |-> "idle", attack_power |-> 0, defense |-> 0, health |-> 0,
      damage_type |-> "physical", is_critical |-> FALSE, is_blocked |-> FALSE,
      damage |-> 0, target_defeated |-> FALSE ]

\* no Game object is running
NoGame == [current_state |-> "none"]

Init ==
    /\ \E bt \in AIBehaviorTypes : ai = InitAIRecord(bt)
    /\ \E facing \in Facings : entity = InitEntityRecord(facing)
    /\ player = InitPlayerRecord(PlayerStart)
    /\ last = NoCall
    /\ calls = 0
    /\ ops = 0
    /\ combat = IdleCombat
    /\ game = NoGame

\* ------------------------------------------------------------------------
\* Operations on the agent and its AI
\* ------------------------------------------------------------------------

\* what AI.update computes from its arguments before it changes anything
Observe(a, e, ppos, cfg) ==
    LET in_cone == player_in_vision_cone(e, ppos, cfg)
        has_los == has_line_of_sight(e, ppos, ObstaclesArg, in_cone)
        visible == is_alive(e) /\ in_cone /\ has_los
    IN  [ called            |-> TRUE,
          alive             |-> is_alive(e),
          in_cone           |-> in_cone,
          has_los           |-> has_los,
          flee              |-> should_flee(e, cfg),
          in_detection      |-> DistanceLE(e.position, ppos, cfg.detection_range),
          in_attack_range   |-> /\ DistanceLE(e.position, ppos, e.attack_range)
                                /\ DistanceLE(e.position, ppos, cfg.attack_range),
          cooldown          |-> IF a.attack_cooldown > 0
                                THEN a.attack_cooldown - 1 ELSE 0,
          had_target        |-> a.target # "none",
          has_waypoints     |-> Len(a.patrol_points) > 0,
          prev_state        |-> a.state,
          prev_search_timer |-> a.search_timer,
          prev_last_known   |-> a.last_known_target_position,
          prev_visible_at   |-> last.visible_at,
          visible_at        |-> IF visible THEN ppos ELSE last.visible_at ]

\* the draws AI.wander makes in this call: it draws only when it picks a
\* target (no target yet, or the cooldown runs out in this call)
WanderDraws(a) ==
    IF a.wander_target = NonePos \/ a.wander_cooldown <= 1
    THEN WanderAngles \X WanderDistances
    ELSE { << 0, 100 >> }

\* AI.update(player, obstacles), called once per tick for the agent
AIUpdate(ppos, draw) ==
    /\ ppos = player.position \/ calls < InputWindow
    /\ LET cfg == BehaviorConfig(ai.behavior_type)
           r   == ai_update(ai, entity, ppos, ObstaclesArg, cfg, draw[1], draw[2])
       IN  /\ ai' = r[1]
           /\ entity' = r[2]
           /\ last' = Observe(ai, entity, ppos, cfg)
    /\ player' = [player EXCEPT !.position = ppos]
    /\ calls' = Min(calls + 1, InputWindow)
    /\ UNCHANGED << ops, combat, game >>

\* AI.set_patrol_points(points)
SetPatrolPoints(points) ==
    /\ calls < InputWindow
    /\ ai.patrol_points = << >>
    /\ ai' = [ai EXCEPT !.patrol_points = points, !.current_patrol_index = 0]
    /\ UNCHANGED << entity, player, last, calls, ops, combat, game >>

\* CombatSystem.perform_attack(player, agent): the player hits the agent
PlayerAttacksAgent(is_critical, is_blocked) ==
    /\ calls < InputWindow
    /\ ops < MaxCombatOps
    /\ LET r == perform_attack(player.attack_power, entity.defense, entity.health,
                               is_critical, is_blocked, "physical")
       IN  entity' = [entity EXCEPT !.health = r.health]
    /\ ops' = ops + 1
    /\ UNCHANGED << ai, player, last, calls, combat, game >>

\* CombatSystem.heal(agent, heal_amount)
HealAgent(heal_amount) ==
    /\ calls < InputWindow
    /\ ops < MaxCombatOps
    /\ entity' = [entity EXCEPT
                     !.health = heal(entity.health, entity.max_health, heal_amount)]
    /\ ops' = ops + 1
    /\ UNCHANGED << ai, player, last, calls, combat, game >>

Next ==
    \/ \E ppos \in PlayerSpots : \E draw \in WanderDraws(ai) : AIUpdate(ppos, draw)
    \/ \E points \in PatrolRoutes : SetPatrolPoints(points)
    \/ \E c \in RollOutcomes(critical_chance_pct) :
          \E b \in RollOutcomes(entity.block_chance_pct) : PlayerAttacksAgent(c, b)
    \/ HealAgent(HealAmount)

Spec == Init /\ [][Next]_vars


\* ------------------------------------------------------------------------
\* CombatSystem.perform_attack on its own, for all stats and forced rolls
\* ------------------------------------------------------------------------

InitCombat ==
    /\ ai = InitAIRecord("aggressive")
    /\ entity = InitEntityRecord(0)
    /\ player = InitPlayerRecord(PlayerStart)
    /\ last = NoCall
    /\ calls = 0
    /\ ops = 0
    /\ game = NoGame
    /\ \E ap \in 0..MaxAttackPower :
          \E df \in (0..MaxDefense) \cup {HugeDefense} :
             combat = [IdleCombat EXCEPT !.pc = "ready", !.attack_power = ap,
                                         !.defense = df, !.health = DefenderHealth]

\* CombatSystem.perform_attack(attacker, defender, damage_type) with the two
\* random rolls forced to is_critical and is_blocked
PerformAttack(is_critical, is_blocked, damage_type) ==
    /\ combat.pc = "ready"
    /\ LET r == perform_attack(combat.attack_power, combat.defense, combat.health,
                               is_critical, is_blocked, damage_type)
       IN  combat' = [combat EXCEPT !.pc = "done",
                                    !.damage_type = damage_type,
                                    !.is_critical = r.was_critical,
                                    !.is_blocked = r.was_blocked,
                                    !.damage = r.damage,
                                    !.target_defeated = r.target_defeated,
                                    !.health = r.health]
    /\ UNCHANGED << ai, entity, player, last, calls, ops, game >>

NextCombat ==
    \E c \in BOOLEAN : \E b \in BOOLEAN : \E dt \in DamageTypes : PerformAttack(c, b, dt)

SpecCombat == InitCombat /\ [][NextCombat]_vars

\* ------------------------------------------------------------------------
\* The gameplay tick: Game.update, Game._update_gameplay, Player, Enemy
\*
\* Rects are in whole pixels, as pygame.Rect keeps them.  The float positions
\* of the player and of the enemies are kept in thousandths of a pixel; the AI
\* is handed them truncated to whole pixels.
\* ------------------------------------------------------------------------

\* thousandths of a pixel in one pixel
Milli == 1000

\* config.FRAME_RATE; Game.update uses dt = 1 / FRAME_RATE
FRAME_RATE == 60

\* a position in thousandths of a pixel from one in whole pixels, and back
MilliOf(p) == << p[1] * Milli, p[2] * Milli >>
PxOf(pm) == << IntDiv(pm[1], Milli), IntDiv(pm[2], Milli) >>

\* n / d rounded away from zero (d > 0): a displacement, however small, keeps
\* its sign
AwayDiv(n, d) == IF n >= 0 THEN (n + d - 1) \div d ELSE -((-n + d - 1) \div d)

\* velocity * dt in thousandths of a pixel, for velocity = cos * speed * intent
\* with cos in millionths and speed in tenths of a pixel per second
StepOf(cos6, speed_x10, intent) ==
    AwayDiv(cos6 * speed_x10 * intent, 10 * FRAME_RATE * Milli)

\* the same for a speed in thousandths of a pixel per second
StepOfThousandths(cos6, speed_x1000, intent) ==
    AwayDiv(cos6 * speed_x1000 * intent, 1000 * FRAME_RATE * Milli)

\* Newton's iteration for the integer square root of n > 0, from a guess
\* x >= sqrt(n)
RECURSIVE IsqrtFrom(_, _)
IsqrtFrom(n, x) ==
    LET y == (x + n \div x) \div 2
    IN  IF y >= x THEN x ELSE IsqrtFrom(n, y)

\* the largest r with r * r <= n
Isqrt(n) == IF n = 0 THEN 0 ELSE IsqrtFrom(n, n)

\* pygame.Rect(x, y, w, h)
Rect(x, y, w, h) == [x |-> x, y |-> y, w |-> w, h |-> h]

\* pygame.Rect.centerx, centery
CenterOf(r) == << r.x + r.w \div 2, r.y + r.h \div 2 >>

\* pygame.Rect.colliderect
colliderect(r1, r2) ==
    /\ r1.x < r2.x + r2.w /\ r2.x < r1.x + r1.w
    /\ r1.y < r2.y + r2.h /\ r2.y < r1.y + r1.h

\* Physics.check_collision
check_collision(rect1, rect2) == colliderect(rect1, rect2)

\* Physics.get_collision_side, faulty variant: ties are broken top, bottom,
\* left, right
get_collision_side_topfirst(moving_rect, static_rect) ==
    IF ~colliderect(moving_rect, static_rect) THEN "none"
    ELSE LET overlap_left   == (moving_rect.x + moving_rect.w) - static_rect.x
             overlap_right  == (static_rect.x + static_rect.w) - moving_rect.x
             overlap_top    == (moving_rect.y + moving_rect.h) - static_rect.y
             overlap_bottom == (static_rect.y + static_rect.h) - moving_rect.y
             min_overlap    == Min(Min(overlap_left, overlap_right),
                                   Min(overlap_top, overlap_bottom))
         IN  IF min_overlap = overlap_top THEN "top"
             ELSE IF min_overlap = overlap_bottom THEN "bottom"
             ELSE IF min_overlap = overlap_left THEN "left"
             ELSE "right"

\* Physics.get_collision_side ("none" for None); the velocity argument is not
\* used by the code
get_collision_side(moving_rect, static_rect) ==
    IF ~colliderect(moving_rect, static_rect) THEN "none"
    ELSE LET overlap_left   == (moving_rect.x + moving_rect.w) - static_rect.x
             overlap_right  == (static_rect.x + static_rect.w) - moving_rect.x
             overlap_top    == (moving_rect.y + moving_rect.h) - static_rect.y
             overlap_bottom == (static_rect.y + static_rect.h) - moving_rect.y
             min_overlap    == Min(Min(overlap_left, overlap_right),
                                   Min(overlap_top, overlap_bottom))
         IN  IF min_overlap = overlap_left THEN "left"
             ELSE IF min_overlap = overlap_right THEN "right"
             ELSE IF min_overlap = overlap_top THEN "top"
             ELSE "bottom"

\* the caller's clamp of the moving rect to the obstacle's edge on that side
clamp_to_side(rect, wall_rect, side) ==
    CASE side = "left"   -> [rect EXCEPT !.x = wall_rect.x - rect.w]
      [] side = "right"  -> [rect EXCEPT !.x = wall_rect.x + wall_rect.w]
      [] side = "top"    -> [rect EXCEPT !.y = wall_rect.y - rect.h]
      [] side = "bottom" -> [rect EXCEPT !.y = wall_rect.y + wall_rect.h]
      [] OTHER           -> rect

\* FloorGenerator.tile_size
tile_size == 32

\* Game.world_bounds as _start_play computes it from the rooms
world_bounds == [min_x |-> 0, min_y |-> 0, max_x |-> 832, max_y |-> 576]

\* Game.walls: the four border walls _start_play appends (top, bottom, left,
\* right), in list order
GameWalls ==
    LET b == world_bounds
    IN  << Rect(b.min_x, b.min_y, b.max_x - b.min_x, tile_size),
           Rect(b.min_x, b.max_y - tile_size, b.max_x - b.min_x, tile_size),
           Rect(b.min_x, b.min_y, tile_size, b.max_y - b.min_y),
           Rect(b.max_x - tile_size, b.min_y, tile_size, b.max_y - b.min_y) >>

\* the rects of the walls, as AI.decide_action hands them to Physics.raycast
GameObstacles == [is_none |-> FALSE, rects |-> {GameWalls[i] : i \in 1..Len(GameWalls)}]

\* the 8-way attack hitbox of Player.get_attack_rect and Enemy.get_attack_rect
\* (attack_range 40, attack_width 30) for a body rect and a facing
attack_range_px == 40
attack_width_px == 30

AttackRectAt(r, direction_angle) ==
    LET angle  == direction_angle % 360
        right  == r.x + r.w
        bottom == r.y + r.h
        c      == CenterOf(r)
        ar     == attack_range_px
        aw     == attack_width_px
    IN  IF 2 * angle < 45 \/ 2 * angle >= 675
        THEN Rect(right, c[2] - aw \div 2, ar, aw)
        ELSE IF 2 * angle < 135
        THEN Rect(right - aw \div 2, bottom - aw \div 2, ar, ar)
        ELSE IF 2 * angle < 225
        THEN Rect(c[1] - aw \div 2, bottom, aw, ar)
        ELSE IF 2 * angle < 315
        THEN Rect(r.x - ar + aw \div 2, bottom - aw \div 2, ar, ar)
        ELSE IF 2 * angle < 405
        THEN Rect(r.x - ar, c[2] - aw \div 2, ar, aw)
        ELSE IF 2 * angle < 495
        THEN Rect(r.x - ar + aw \div 2, r.y - ar + aw \div 2, ar, ar)
        ELSE IF 2 * angle < 585
        THEN Rect(c[1] - aw \div 2, r.y - ar, aw, ar)
        ELSE Rect(right - aw \div 2, r.y - ar + aw \div 2, ar, ar)

\* Player.get_attack_rect
player_get_attack_rect(p) == AttackRectAt(p.rect, p.direction_angle)

\* Enemy.get_attack_rect
enemy_get_attack_rect(en) == AttackRectAt(en.rect, en.direction_angle)

\* the rect of a body of the given size around a position (thousandths):
\* rect.x = int(position[0] - size // 2), rect.y likewise
BodyRect(position, size) ==
    Rect(IntDiv(position[1] - (size \div 2) * Milli, Milli),
         IntDiv(position[2] - (size \div 2) * Milli, Milli), size, size)

\* max(lo + half_size, min(position, hi - half_size)) on both axes
ClampToBounds(position, size, bounds) ==
    LET half_size == (size \div 2) * Milli
    IN  << Max(bounds.min_x * Milli + half_size,
               Min(position[1], bounds.max_x * Milli - half_size)),
           Max(bounds.min_y * Milli + half_size,
               Min(position[2], bounds.max_y * Milli - half_size)) >>

\* config.PLAYER_SPEED, in tenths of a pixel per second
PLAYER_SPEED_x10 == 480

\* Player.sprint_multiplier (3.5), doubled
sprint_multiplier_x2 == 7

\* Player.attack_cooldown_time (frames)
attack_cooldown_time == 30

\* rotation_speed of Player.handle_input and Enemy.rotation_speed (degrees
\* per frame)
rotation_speed == 5

\* the keys and buttons InputHandler reports as held in a tick
NoKeys == [w |-> FALSE, s |-> FALSE, a |-> FALSE, d |-> FALSE,
           shift |-> FALSE, mouse |-> FALSE]

\* the cardinal direction Player.handle_input derives from the angle
Direction8(angle) ==
    IF 2 * angle < 45 \/ 2 * angle >= 675 THEN "right"
    ELSE IF 2 * angle < 135 THEN "down-right"
    ELSE IF 2 * angle < 225 THEN "down"
    ELSE IF 2 * angle < 315 THEN "down-left"
    ELSE IF 2 * angle < 405 THEN "left"
    ELSE IF 2 * angle < 495 THEN "up-left"
    ELSE IF 2 * angle < 585 THEN "up"
    ELSE "up-right"

\* Player.__init__ as Game._start_play calls and adjusts it: Player("Hero",
\* health=10000, ...), level 5, exp 350 of 500, stamina 100 (in tenths),
\* placed at pos with the rect centred on it
InitGamePlayer(pos, facing) ==
    [ health          |-> 10000,
      max_health      |-> 10000,
      position        |-> MilliOf(pos),
      velocity_dt     |-> << 0, 0 >>,
      size            |-> 48,
      is_sprinting    |-> FALSE,
      is_moving       |-> FALSE,
      stamina_x10     |-> 1000,
      max_stamina_x10 |-> 1000,
      attack_power    |-> 10,
      defense         |-> 0,
      is_attacking    |-> FALSE,
      attack_cooldown |-> 0,
      attack_processed |-> FALSE,
      direction       |-> Direction8(facing),
      direction_angle |-> facing,
      level           |-> 5,
      exp             |-> 350,
      max_exp         |-> 500,
      rect            |-> Rect(pos[1] - 24, pos[2] - 24, 48, 48) ]

\* Player.handle_input(input_handler), faulty variant: the angle is not
\* brought back into the 0-360 range after the turn
player_handle_input_nowrap(p, keys) ==
    LET is_sprinting  == keys.shift /\ p.stamina_x10 > 0
        speed_x10     == IF is_sprinting
                         THEN (PLAYER_SPEED_x10 * sprint_multiplier_x2) \div 2
                         ELSE PLAYER_SPEED_x10
        forward       == IF keys.w THEN 1 ELSE IF keys.s THEN -1 ELSE 0
        rot_sign      == IF forward = -1 THEN -1 ELSE 1
        angle         == ( p.direction_angle
                           - (IF keys.a THEN rotation_speed * rot_sign ELSE 0)
                           + (IF keys.d THEN rotation_speed * rot_sign ELSE 0) )
        press         == keys.mouse /\ p.attack_cooldown = 0
    IN  [p EXCEPT !.is_sprinting = is_sprinting,
                  !.direction_angle = angle,
                  !.direction = Direction8(angle),
                  !.velocity_dt =
                      IF forward # 0
                      THEN << StepOf(Cos6(angle), speed_x10, forward),
                              StepOf(Sin6(angle), speed_x10, forward) >>
                      ELSE << 0, 0 >>,
                  !.is_moving = (forward # 0),
                  !.is_attacking = IF press THEN TRUE ELSE @,
                  !.attack_cooldown = IF press THEN attack_cooldown_time ELSE @]

\* Player.handle_input(input_handler) with the keys held this tick;
\* velocity_dt is velocity * dt
player_handle_input(p, keys) ==
    LET is_sprinting  == keys.shift /\ p.stamina_x10 > 0
        speed_x10     == IF is_sprinting
                         THEN (PLAYER_SPEED_x10 * sprint_multiplier_x2) \div 2
                         ELSE PLAYER_SPEED_x10
        forward       == IF keys.w THEN 1 ELSE IF keys.s THEN -1 ELSE 0
        rot_sign      == IF forward = -1 THEN -1 ELSE 1
        angle         == ( p.direction_angle
                           - (IF keys.a THEN rotation_speed * rot_sign ELSE 0)
                           + (IF keys.d THEN rotation_speed * rot_sign ELSE 0) ) % 360
        press         == keys.mouse /\ p.attack_cooldown = 0
    IN  [p EXCEPT !.is_sprinting = is_sprinting,
                  !.direction_angle = angle,
                  !.direction = Direction8(angle),
                  !.velocity_dt =
                      IF forward # 0
                      THEN << StepOf(Cos6(angle), speed_x10, forward),
                              StepOf(Sin6(angle), speed_x10, forward) >>
                      ELSE << 0, 0 >>,
                  !.is_moving = (forward # 0),
                  !.is_attacking = IF press THEN TRUE ELSE @,
                  !.attack_cooldown = IF press THEN attack_cooldown_time ELSE @]

\* Player.update(dt, bounds), faulty variant: the attack cooldown is not
\* counted down
player_update_nocountdown(p, bounds) ==
    LET moved    == << p.position[1] + p.velocity_dt[1],
                       p.position[2] + p.velocity_dt[2] >>
        position == ClampToBounds(moved, p.size, bounds)
    IN  [p EXCEPT !.position = position,
                  !.rect = BodyRect(position, p.size),
                  !.is_attacking = IF p.attack_cooldown = 0 THEN FALSE ELSE @]

\* Player.update(dt, bounds)
player_update(p, bounds) ==
    LET moved    == << p.position[1] + p.velocity_dt[1],
                       p.position[2] + p.velocity_dt[2] >>
        position == ClampToBounds(moved, p.size, bounds)
        cooldown == IF p.attack_cooldown > 0 THEN p.attack_cooldown - 1
                    ELSE p.attack_cooldown
    IN  [p EXCEPT !.position = position,
                  !.rect = BodyRect(position, p.size),
                  !.attack_cooldown = cooldown,
                  !.is_attacking = IF cooldown = 0 THEN FALSE ELSE @]

\* Game._update_gameplay, the pass over the walls from index k on: the player's
\* rect is clamped to each wall it overlaps and the position is synced to the
\* rect centre
RECURSIVE player_resolve_walls(_, _, _)
player_resolve_walls(p, walls, k) ==
    IF k > Len(walls) THEN p
    ELSE IF colliderect(p.rect, walls[k])
    THEN LET side == get_collision_side(p.rect, walls[k])
             rect == clamp_to_side(p.rect, walls[k], side)
         IN  player_resolve_walls([p EXCEPT !.rect = rect,
                                            !.position = MilliOf(CenterOf(rect))],
                                  walls, k + 1)
    ELSE player_resolve_walls(p, walls, k + 1)

\* EnemyType
EnemyTypes == {"basic", "tank", "ranger", "fast", "boss"}

\* Enemy._get_ai_behavior_for_type
ai_behavior_for_type(enemy_type) ==
    CASE enemy_type = "tank"   -> "tank"
      [] enemy_type = "ranger" -> "ranger"
      [] OTHER                 -> "aggressive"

\* Enemy.__init__ before the AI is made and before _configure_by_type; the
\* speed is handed over in tenths of a pixel per second and kept in
\* thousandths, chances in percent
EnemyBase(enemy_type, health, damage, speed_x10, pos) ==
    [ enemy_type       |-> enemy_type,
      health           |-> health,
      max_health       |-> health,
      attack_power     |-> damage,
      defense          |-> 0,
      speed_x1000      |-> speed_x10 * 100,
      position         |-> MilliOf(pos),
      size             |-> 28,
      direction        |-> "down",
      direction_angle  |-> 0,
      desired_angle    |-> 0,
      move_intent      |-> 0,
      is_attacking     |-> FALSE,
      attack_range     |-> 50,
      attack_cooldown  |-> 0,
      base_attack_cooldown |-> 90,
      crit_chance_pct  |-> 5,
      block_chance_pct |-> 0,
      rect             |-> Rect(pos[1] - 14, pos[2] - 14, 28, 28),
      listed           |-> TRUE,
      ai               |-> InitAIRecord(ai_behavior_for_type(enemy_type)) ]

\* AI._configure_behavior, called by AI.__init__ from Enemy.__init__: what it
\* does to the entity (the TANK behaviour slows it down)
configure_behavior_entity(en) ==
    IF en.ai.behavior_type = "tank"
    THEN [en EXCEPT !.speed_x1000 = (en.speed_x1000 * 7) \div 10]
    ELSE en

\* Enemy._configure_by_type
configure_by_type(en) ==
    LET c ==
        CASE en.enemy_type = "tank" ->
                 [en EXCEPT !.max_health = en.max_health * 2,
                            !.health = en.max_health * 2,
                            !.defense = 5,
                            !.speed_x1000 = (en.speed_x1000 * 6) \div 10,
                            !.size = 36,
                            !.block_chance_pct = 15,
                            !.base_attack_cooldown = 120]
          [] en.enemy_type = "ranger" ->
                 [en EXCEPT !.attack_range = 150,
                            !.speed_x1000 = (en.speed_x1000 * 8) \div 10,
                            !.defense = 1,
                            !.base_attack_cooldown = 100]
          [] en.enemy_type = "fast" ->
                 [en EXCEPT !.speed_x1000 = (en.speed_x1000 * 15) \div 10,
                            !.health = (en.health * 7) \div 10,
                            !.max_health = (en.health * 7) \div 10,
                            !.size = 24,
                            !.base_attack_cooldown = 75]
          [] en.enemy_type = "boss" ->
                 [en EXCEPT !.max_health = en.max_health * 5,
                            !.health = en.max_health * 5,
                            !.attack_power = en.attack_power * 2,
                            !.defense = 10,
                            !.speed_x1000 = (en.speed_x1000 * 7) \div 10,
                            !.size = 48,
                            !.crit_chance_pct = 15,
                            !.block_chance_pct = 10,
                            !.base_attack_cooldown = 100]
          [] OTHER -> en
    IN  [c EXCEPT !.rect = [@ EXCEPT !.w = c.size, !.h = c.size]]

\* Enemy(name, health, damage, speed, position, enemy_type)
NewEnemy(enemy_type, health, damage, speed_x10, pos) ==
    configure_by_type(
        configure_behavior_entity(
            EnemyBase(enemy_type, health, damage, speed_x10, pos)))

\* Enemy._resolve_wall_collisions, the sweep over the walls from index k on
RECURSIVE resolve_wall_collisions(_, _, _)
resolve_wall_collisions(rect, walls, k) ==
    IF k > Len(walls) THEN rect
    ELSE IF colliderect(rect, walls[k])
    THEN resolve_wall_collisions(
             clamp_to_side(rect, walls[k], get_collision_side(rect, walls[k])),
             walls, k + 1)
    ELSE resolve_wall_collisions(rect, walls, k + 1)

\* the entity as the AI reads it: its position in whole pixels
AIView(en) == [en EXCEPT !.position = PxOf(en.position)]

\* Enemy.update rotation, faulty variant: the difference is not wrapped to the
\* shortest arc
rotate_toward_nowrap(direction_angle, desired_angle) ==
    LET diff == desired_angle - direction_angle
    IN  ( direction_angle
          + (IF diff > 0 THEN Min(rotation_speed, diff)
             ELSE Max(-rotation_speed, diff)) ) % 360

\* Enemy.update, the smooth rotation toward the desired angle
rotate_toward(direction_angle, desired_angle) ==
    LET diff == ((desired_angle - direction_angle + 540) % 360) - 180
    IN  ( direction_angle
          + (IF diff > 0 THEN Min(rotation_speed, diff)
             ELSE Max(-rotation_speed, diff)) ) % 360

\* Enemy.update, the step along the facing angle when the AI asked to move
enemy_step(en, ang) ==
    IF en.move_intent # 0
    THEN << en.position[1] + StepOfThousandths(Cos6(ang), en.speed_x1000, en.move_intent),
            en.position[2] + StepOfThousandths(Sin6(ang), en.speed_x1000, en.move_intent) >>
    ELSE en.position

\* Enemy.update, the rect after the move: centred on the position, then pushed
\* out of the walls
enemy_rect(clamped, size, walls) ==
    IF Len(walls) > 0
    THEN resolve_wall_collisions(BodyRect(clamped, size), walls, 1)
    ELSE BodyRect(clamped, size)

\* Enemy.update, "if obstacles:" after the wall pass: the position becomes the
\* centre of the rect, whether or not the rect was pushed
enemy_synced_position(clamped, rect, walls) ==
    IF Len(walls) > 0 THEN MilliOf(CenterOf(rect)) ELSE clamped

\* Enemy.update, what follows the movement: the position is synced to the rect
\* when there are walls, and the attack cooldown counts down
enemy_settle(en, ang, clamped, rect, walls) ==
    LET cooldown == IF en.attack_cooldown > 0 THEN en.attack_cooldown - 1
                    ELSE en.attack_cooldown
    IN  [en EXCEPT !.direction_angle = ang,
                   !.position = enemy_synced_position(clamped, rect, walls),
                   !.rect = rect,
                   !.attack_cooldown = cooldown,
                   !.is_attacking = IF cooldown = 0 THEN FALSE ELSE @]

\* Enemy.update, the movement of the enemy e1 the AI has steered, clamped to
\* the bounds
enemy_clamped(e1, ang, bounds) ==
    ClampToBounds(enemy_step(e1, ang), e1.size, bounds)

\* Enemy.update after the AI ran, turning by ang
enemy_move(e1, ang, walls, bounds) ==
    enemy_settle(e1, ang, enemy_clamped(e1, ang, bounds),
                 enemy_rect(enemy_clamped(e1, ang, bounds), e1.size, walls),
                 walls)

\* Enemy.update after the AI ran: r is <<ai, entity>> as AI.update left them
enemy_after_ai(en, r, walls, bounds) ==
    enemy_move([r[2] EXCEPT !.position = en.position, !.ai = r[1]],
               rotate_toward(r[2].direction_angle, r[2].desired_angle),
               walls, bounds)

\* Enemy.update(player, dt, obstacles, bounds) for a live enemy; angle and
\* distance are the draws of AI.wander
enemy_update_alive(en, ppos, walls, bounds, angle, distance) ==
    enemy_after_ai(en,
                   ai_update(en.ai, AIView(en), ppos, GameObstacles,
                             BehaviorConfig(en.ai.behavior_type), angle, distance),
                   walls, bounds)

\* Enemy.update: nothing is done for an enemy that is not alive
enemy_update(en, ppos, walls, bounds, angle, distance) ==
    IF ~is_alive(en) THEN en
    ELSE enemy_update_alive(en, ppos, walls, bounds, angle, distance)

\* buffer of the player-enemy and of the enemy-enemy minimum distance (pixels)
player_enemy_buffer == 15
enemy_enemy_buffer == 5

\* (dx / current_distance) * push_distance in thousandths of a pixel, for a
\* centre offset (dx, dy) in whole pixels with 0 < distance < min_distance;
\* halve = 2 when the push is shared by two bodies.  The distance is taken in
\* hundredths of a pixel.
PushAlong(d, dx, dy, min_distance, halve) ==
    LET dist_c == Isqrt((dx * dx + dy * dy) * 10000)
    IN  IntDiv(Milli * d * (min_distance * 100 - dist_c), dist_c * halve)

\* Game._update_gameplay, minimum distance between the player and the enemies
\* from index k on: only the enemy is pushed
RECURSIVE separate_player_enemies(_, _, _)
separate_player_enemies(p, es, k) ==
    IF k > Len(es) THEN es
    ELSE LET en == es[k]
             min_distance == p.size \div 2 + en.size \div 2 + player_enemy_buffer
             dx == CenterOf(en.rect)[1] - CenterOf(p.rect)[1]
             dy == CenterOf(en.rect)[2] - CenterOf(p.rect)[2]
             d2 == dx * dx + dy * dy
             position == << en.position[1] + PushAlong(dx, dx, dy, min_distance, 1),
                            en.position[2] + PushAlong(dy, dx, dy, min_distance, 1) >>
         IN  IF en.listed /\ d2 < min_distance * min_distance /\ d2 > 0
             THEN separate_player_enemies(p,
                      [es EXCEPT ![k] = [en EXCEPT !.position = position,
                                                   !.rect = BodyRect(position, en.size)]],
                      k + 1)
             ELSE separate_player_enemies(p, es, k + 1)

\* Game._update_gameplay, enemies kept from overlapping each other: the pairs
\* (i, j), i < j, in list order from (i, j) on; both enemies are pushed
RECURSIVE separate_enemies(_, _, _)
separate_enemies(es, i, j) ==
    IF i > Len(es) THEN es
    ELSE IF j > Len(es) THEN separate_enemies(es, i + 1, i + 2)
    ELSE LET enemy1 == es[i]
             enemy2 == es[j]
             min_distance == enemy1.size \div 2 + enemy2.size \div 2 + enemy_enemy_buffer
             dx == CenterOf(enemy2.rect)[1] - CenterOf(enemy1.rect)[1]
             dy == CenterOf(enemy2.rect)[2] - CenterOf(enemy1.rect)[2]
             d2 == dx * dx + dy * dy
             push_x == PushAlong(dx, dx, dy, min_distance, 2)
             push_y == PushAlong(dy, dx, dy, min_distance, 2)
             p1 == << enemy1.position[1] - push_x, enemy1.position[2] - push_y >>
             p2 == << enemy2.position[1] + push_x, enemy2.position[2] + push_y >>
         IN  IF /\ enemy1.listed /\ enemy2.listed
                /\ d2 < min_distance * min_distance /\ d2 > 0
             THEN separate_enemies(
                      [es EXCEPT ![i] = [enemy1 EXCEPT !.position = p1,
                                                       !.rect = BodyRect(p1, enemy1.size)],
                                 ![j] = [enemy2 EXCEPT !.position = p2,
                                                       !.rect = BodyRect(p2, enemy2.size)]],
                      i, j + 1)
             ELSE separate_enemies(es, i, j + 1)

\* Game._update_gameplay, stamina drain (0.5) and regeneration (0.3), in tenths
update_stamina(p) ==
    IF p.is_sprinting /\ p.is_moving
    THEN [p EXCEPT !.stamina_x10 = Max(0, @ - 5)]
    ELSE [p EXCEPT !.stamina_x10 = Min(p.max_stamina_x10, @ + 3)]

\* exp awarded for a defeated enemy
defeat_exp == 50

\* Game._update_gameplay, the loop over the enemies, faulty variant: an enemy
\* that is not alive is rewarded but stays in the list
RECURSIVE update_enemies_keep(_, _, _, _)
update_enemies_keep(g, k, angle, distance) ==
    IF k > Len(g.enemies) THEN g
    ELSE LET en == g.enemies[k]
             p  == g.player
         IN  IF ~en.listed THEN update_enemies_keep(g, k + 1, angle, distance)
             ELSE IF is_alive(en)
             THEN update_enemies_keep(
                      [g EXCEPT !.enemies[k] =
                           enemy_update(en, PxOf(p.position), GameWalls,
                                        world_bounds, angle, distance)],
                      k + 1, angle, distance)
             ELSE update_enemies_keep(
                      [g EXCEPT !.defeat_notifications = @ + 1,
                                !.player.exp = @ + defeat_exp,
                                !.due_dead = @ \cup {k}],
                      k + 1, angle, distance)

\* Game._update_gameplay, the loop over the enemies from index k on: a live
\* enemy is updated, one that is not alive is removed from the list and
\* rewarded.  due_dead collects the enemies found not alive at their turn.
RECURSIVE update_enemies(_, _, _, _)
update_enemies(g, k, angle, distance) ==
    IF k > Len(g.enemies) THEN g
    ELSE LET en == g.enemies[k]
             p  == g.player
         IN  IF ~en.listed THEN update_enemies(g, k + 1, angle, distance)
             ELSE IF is_alive(en)
             THEN update_enemies(
                      [g EXCEPT !.enemies[k] =
                           enemy_update(en, PxOf(p.position), GameWalls,
                                        world_bounds, angle, distance)],
                      k + 1, angle, distance)
             ELSE LET level_up == p.exp + defeat_exp >= p.max_exp
                  IN  update_enemies(
                          [g EXCEPT !.enemies[k].listed = FALSE,
                                    !.defeat_notifications = @ + 1,
                                    !.player.exp = IF level_up THEN 0 ELSE @ + defeat_exp,
                                    !.player.level = IF level_up THEN @ + 1 ELSE @,
                                    !.due_dead = @ \cup {k}],
                          k + 1, angle, distance)

\* Game._update_gameplay, the player's attack against the enemies from index k
\* on, with the rolls forced
RECURSIVE hit_enemies(_, _, _, _, _)
hit_enemies(es, k, p, is_critical, is_blocked) ==
    IF k > Len(es) THEN es
    ELSE IF es[k].listed /\ check_collision(player_get_attack_rect(p), es[k].rect)
    THEN LET r == perform_attack(p.attack_power, es[k].defense, es[k].health,
                                 is_critical, is_blocked /\ es[k].block_chance_pct > 0,
                                 "physical")
         IN  hit_enemies([es EXCEPT ![k].health = r.health], k + 1, p,
                         is_critical, is_blocked)
    ELSE hit_enemies(es, k + 1, p, is_critical, is_blocked)

\* Game._update_gameplay, combat - player attacks, faulty variant: the attack
\* is resolved in every tick in which is_attacking holds
resolve_player_attack_everytick(g, is_critical, is_blocked) ==
    IF g.player.is_attacking
    THEN [g EXCEPT !.enemies = hit_enemies(g.enemies, 1, g.player,
                                           is_critical, is_blocked),
                   !.player.attack_processed = TRUE]
    ELSE [g EXCEPT !.player.attack_processed = FALSE]

\* Game._update_gameplay, combat - player attacks: resolved once per press
resolve_player_attack(g, is_critical, is_blocked) ==
    IF g.player.is_attacking
    THEN IF ~g.player.attack_processed
         THEN [g EXCEPT !.enemies = hit_enemies(g.enemies, 1, g.player,
                                                is_critical, is_blocked),
                        !.player.attack_processed = TRUE]
         ELSE g
    ELSE [g EXCEPT !.player.attack_processed = FALSE]

\* Game._update_gameplay, combat - enemy attacks, for the enemies from index k
\* on, with the critical roll forced (the player has no block chance)
RECURSIVE resolve_enemy_attacks(_, _, _)
resolve_enemy_attacks(g, k, is_critical) ==
    IF k > Len(g.enemies) THEN g
    ELSE LET en == g.enemies[k]
             player_in_attack_rect ==
                 check_collision(enemy_get_attack_rect(en), g.player.rect)
             r == perform_attack(en.attack_power, g.player.defense, g.player.health,
                                 is_critical, FALSE, "physical")
         IN  IF en.listed /\ player_in_attack_rect /\ en.attack_cooldown = 0
             THEN resolve_enemy_attacks(
                      [g EXCEPT !.enemies[k].is_attacking = TRUE,
                                !.enemies[k].attack_cooldown = en.base_attack_cooldown,
                                !.player.health = r.health,
                                !.current_state =
                                    IF r.health > 0 THEN @ ELSE "game_over"],
                      k + 1, is_critical)
             ELSE resolve_enemy_attacks(g, k + 1, is_critical)

\* number of gameplay ticks explored
MaxGameTicks == 3

\* where _start_play puts the player (the centre tile of the start room)
GamePlayerStart == << 416, 288 >>

\* the ways the player faces when the enemy is met (degrees)
GamePlayerFacings == {0, 180}

\* spawn points of the enemy: two tiles right and two tiles left of the player
EnemySpawns == { << 480, 288 >>, << 352, 288 >> }

\* the enemy types spawned
SpawnTypes == {"basic", "tank"}

\* FloorGenerator.spawn_enemies on floor 1: health 30 + 10, damage 5 + 2,
\* speed 2 (in tenths)
spawn_health == 40
spawn_damage == 7
spawn_speed_x10 == 20

\* health of an enemy that has survived earlier hits of the player
WoundedHealth == 10

\* the key and button combinations held in a tick
KeyChoices ==
    { NoKeys,
      [NoKeys EXCEPT !.mouse = TRUE],
      [NoKeys EXCEPT !.d = TRUE],
      [NoKeys EXCEPT !.w = TRUE],
      [NoKeys EXCEPT !.w = TRUE, !.shift = TRUE] }

\* the state _start_play leaves, with one enemy spawned next to the player
InitGameRecord(enemy_type, spawn, wounded, facing) ==
    [ current_state        |-> "playing",
      is_running           |-> TRUE,
      ticks                |-> 0,
      player               |-> InitGamePlayer(GamePlayerStart, facing),
      enemies              |-> << [NewEnemy(enemy_type, spawn_health, spawn_damage,
                                            spawn_speed_x10, spawn)
                                   EXCEPT !.health = IF wounded THEN WoundedHealth
                                                    ELSE @] >>,
      defeat_notifications |-> 0,
      due_dead             |-> {} ]

InitGame ==
    /\ ai = InitAIRecord("aggressive")
    /\ entity = InitEntityRecord(0)
    /\ player = InitPlayerRecord(PlayerStart)
    /\ last = NoCall
    /\ calls = 0
    /\ ops = 0
    /\ combat = IdleCombat
    /\ \E enemy_type \in SpawnTypes : \E spawn \in EnemySpawns :
          \E wounded \in BOOLEAN : \E facing \in GamePlayerFacings :
             game = InitGameRecord(enemy_type, spawn, wounded, facing)

\* the wander draws of a tick: drawn only when some listed enemy can pick
GameWanderDraws(g) ==
    IF \E k \in 1..Len(g.enemies) :
          /\ g.enemies[k].listed
          /\ \/ g.enemies[k].ai.wander_target = NonePos
             \/ g.enemies[k].ai.wander_cooldown <= 1
    THEN WanderAngles \X WanderDistances
    ELSE { << 0, 100 >> }

\* Game._update_gameplay from the player's input to the enemies' attacks: the
\* Game object after the tick
update_gameplay(g, keys, draw, player_crit, enemy_block, enemy_crit) ==
    LET p1 == player_update(player_handle_input(g.player, keys), world_bounds)
        p2 == IF Len(GameWalls) > 0 THEN player_resolve_walls(p1, GameWalls, 1)
              ELSE p1
        es1 == separate_player_enemies(p2, g.enemies, 1)
        es2 == separate_enemies(es1, 1, 2)
        p3 == update_stamina(p2)
        g1 == update_enemies([g EXCEPT !.player = p3, !.enemies = es2,
                                       !.due_dead = {}],
                             1, draw[1], draw[2])
        g2 == resolve_player_attack(g1, player_crit, enemy_block)
    IN  resolve_enemy_attacks(g2, 1, enemy_crit)

\* Game.update(dt) in state "playing"
GameUpdate(keys, draw, player_crit, enemy_block, enemy_crit) ==
    /\ game.current_state = "playing"
    /\ game.is_running
    /\ game.ticks < MaxGameTicks
    /\ game' = [update_gameplay(game, keys, draw, player_crit, enemy_block,
                                enemy_crit)
                EXCEPT !.ticks = @ + 1]
    /\ UNCHANGED << ai, entity, player, last, calls, ops, combat >>

\* the outcomes of the player's critical roll in a tick: it is rolled only when
\* a new press is resolved (critical_chance of the CombatSystem, the player
\* has no crit_chance of its own)
PlayerCritRolls(g, keys) ==
    IF keys.mouse /\ g.player.attack_cooldown = 0
    THEN RollOutcomes(critical_chance_pct) ELSE {FALSE}

\* the outcomes of the enemies' block roll in a tick
EnemyBlockRolls(g, keys) ==
    IF /\ keys.mouse /\ g.player.attack_cooldown = 0
       /\ \E k \in 1..Len(g.enemies) :
             g.enemies[k].listed /\ g.enemies[k].block_chance_pct > 0
    THEN BOOLEAN ELSE {FALSE}

\* the outcomes of the enemies' critical roll in a tick: it is rolled only by
\* an enemy whose cooldown has run out
EnemyCritRolls(g) ==
    IF \E k \in 1..Len(g.enemies) :
          g.enemies[k].listed /\ g.enemies[k].attack_cooldown <= 1
    THEN BOOLEAN ELSE {FALSE}

NextGame ==
    \E keys \in KeyChoices : \E draw \in GameWanderDraws(game) :
       \E player_crit \in PlayerCritRolls(game, keys) :
          \E enemy_block \in EnemyBlockRolls(game, keys) :
             \E enemy_crit \in EnemyCritRolls(game) :
                GameUpdate(keys, draw, player_crit, enemy_block, enemy_crit)

SpecGame == InitGame /\ [][NextGame]_vars

\* ------------------------------------------------------------------------
\* The obstacle passes on their own: one body against a list of obstacles
\* ------------------------------------------------------------------------

\* the grid of body centres, in whole pixels
MaxGrid == 24
BodyCoords == { 4 * k - 16 : k \in 0 .. MaxGrid }

\* body positions: on the grid, and half a pixel right of it (positions are
\* floats in the code)
BodyPositions ==
    { << x * Milli + f, y * Milli >> : x \in BodyCoords, y \in BodyCoords, f \in {0, 500} }

\* Enemy.size (basic), the tile-sized body of the collision scenario, and
\* Player.size
BodySizes == {28, 32, 48}

\* obstacle lists: none, one wall, one wide wall, two walls stacked
ObstacleLists ==
    { << >>,
      << Rect(20, 0, tile_size, tile_size) >>,
      << Rect(0, 40, 3 * tile_size, tile_size) >>,
      << Rect(20, 0, tile_size, tile_size), Rect(20, 32, tile_size, tile_size) >> }

\* a body as the passes read and write it: the logical position and the
\* collision rect
BodyAt(position, size) == [position |-> position, rect |-> BodyRect(position, size)]

\* a body drawn, no pass made yet
InitPhysics ==
    /\ ai = InitAIRecord("aggressive")
    /\ entity = InitEntityRecord(0)
    /\ player = InitPlayerRecord(PlayerStart)
    /\ calls = 0
    /\ ops = 0
    /\ combat = IdleCombat
    /\ game = NoGame
    /\ \E position \in BodyPositions : \E size \in BodySizes :
          \E walls \in ObstacleLists :
             last = [ pc |-> "ready", walls |-> walls, size |-> size,
                      before |-> BodyAt(position, size),
                      after |-> BodyAt(position, size), side |-> "none" ]

\* the side Physics.get_collision_side returns for the body against the
\* first obstacle of the list
FirstSide(rect, walls) ==
    IF Len(walls) > 0 THEN get_collision_side(rect, walls[1]) ELSE "none"

\* Game._update_gameplay, "Collide player with walls"
PlayerWallPass ==
    /\ last.pc = "ready"
    /\ last' = [last EXCEPT !.pc = "player",
                            !.side = FirstSide(last.before.rect, last.walls),
                            !.after = player_resolve_walls(last.before, last.walls, 1)]
    /\ UNCHANGED << ai, entity, player, calls, ops, combat, game >>

\* Enemy.update, "Resolve collisions with walls/obstacles" and the position
\* sync that follows it
EnemyWallPass ==
    /\ last.pc = "ready"
    /\ LET rect == enemy_rect(last.before.position, last.size, last.walls)
       IN  last' = [last EXCEPT !.pc = "enemy",
                                !.side = FirstSide(last.before.rect, last.walls),
                                !.after = [position |-> enemy_synced_position(
                                                            last.before.position,
                                                            rect, last.walls),
                                           rect |-> rect]]
    /\ UNCHANGED << ai, entity, player, calls, ops, combat, game >>

NextPhysics == PlayerWallPass \/ EnemyWallPass

SpecPhysics == InitPhysics /\ [][NextPhysics]_vars

\* ------------------------------------------------------------------------
\* The rotation of Enemy.update on its own: a fixed desired angle
\* ------------------------------------------------------------------------

\* rotation ticks followed
MaxRotationTicks == 40

\* the desired angles tried; the facings run over the whole circle
DesiredAngles == {0, 1, 90, 179, 180, 181, 270, 359}

\* an agent with some facing and some desired angle; last keeps the facing
\* it started with
InitRotation ==
    /\ ai = InitAIRecord("aggressive")
    /\ player = InitPlayerRecord(PlayerStart)
    /\ calls = 0
    /\ ops = 0
    /\ combat = IdleCombat
    /\ game = NoGame
    /\ \E facing \in 0 .. 359 : \E desired \in DesiredAngles :
          /\ entity = [InitEntityRecord(facing) EXCEPT !.desired_angle = desired]
          /\ last = [pc |-> "rotation", direction_angle |-> facing]

\* Enemy.update, "Rotate toward desired angle (shortest arc)", one tick
RotationTick ==
    /\ calls < MaxRotationTicks
    /\ entity' = [entity EXCEPT
                     !.direction_angle = rotate_toward(entity.direction_angle,
                                                       entity.desired_angle)]
    /\ calls' = calls + 1
    /\ UNCHANGED << ai, player, last, ops, combat, game >>

NextRotation == RotationTick

SpecRotation == InitRotation /\ [][NextRotation]_vars

\* ------------------------------------------------------------------------
\* The gameplay tick over a whole attack cycle: the player stands still and
\* presses, holds or releases the attack button
\* ------------------------------------------------------------------------

\* gameplay ticks followed: one attack cycle and the start of the next
MaxCycleTicks == 34

\* the button combinations held in a tick
AttackKeyChoices == { NoKeys, [NoKeys EXCEPT !.mouse = TRUE] }

\* Game.update(dt) in state "playing"
GameUpdateStanding(keys, draw, player_crit, enemy_block, enemy_crit) ==
    /\ game.current_state = "playing"
    /\ game.is_running
    /\ game.ticks < MaxCycleTicks
    /\ game' = [update_gameplay(game, keys, draw, player_crit, enemy_block,
                                enemy_crit)
                EXCEPT !.ticks = @ + 1]
    /\ UNCHANGED << ai, entity, player, last, calls, ops, combat >>

NextAttackCycle ==
    \E keys \in AttackKeyChoices : \E draw \in GameWanderDraws(game) :
       \E player_crit \in PlayerCritRolls(game, keys) :
          \E enemy_block \in EnemyBlockRolls(game, keys) :
             \E enemy_crit \in EnemyCritRolls(game) :
                GameUpdateStanding(keys, draw, player_crit, enemy_block, enemy_crit)

\* the state _start_play leaves, with the enemy spawned two tiles right of the
\* player, inside the hitbox of the player, who faces it, or two tiles left of
\* the player, whom it faces and who has turned to it
InitAttackCycle ==
    /\ ai = InitAIRecord("aggressive")
    /\ entity = InitEntityRecord(0)
    /\ player = InitPlayerRecord(PlayerStart)
    /\ last = NoCall
    /\ calls = 0
    /\ ops = 0
    /\ combat = IdleCombat
    /\ \/ \E enemy_type \in SpawnTypes : \E wounded \in BOOLEAN :
             game = InitGameRecord(enemy_type, << 480, 288 >>, wounded, 0)
       \/ game = InitGameRecord("basic", << 352, 288 >>, FALSE, 180)

SpecAttackCycle == InitAttackCycle /\ [][NextAttackCycle]_vars

\* ------------------------------------------------------------------------
\* The gameplay tick with three agents, run on the enemy list in its order
\* and in the opposite order
\* ------------------------------------------------------------------------

\* gameplay ticks followed
MaxCrowdTicks == 2

\* spawn points of the three agents, left of the player
CrowdSpotsFirst  == { << 300, 280 >>, << 300, 288 >> }
CrowdSpotsSecond == { << 310, 288 >>, << 310, 290 >>, << 340, 288 >> }
CrowdSpotsThird  == { << 320, 288 >>, << 305, 300 >>, << 300, 400 >> }

\* list.reverse()
ReverseList(es) == [i \in 1 .. Len(es) |-> es[Len(es) + 1 - i]]

\* the state _start_play leaves, with three basic enemies spawned
InitCrowdRecord(s1, s2, s3) ==
    [InitGameRecord("basic", s1, FALSE, 0) EXCEPT
        !.enemies = << NewEnemy("basic", spawn_health, spawn_damage, spawn_speed_x10, s1),
                       NewEnemy("basic", spawn_health, spawn_damage, spawn_speed_x10, s2),
                       NewEnemy("basic", spawn_health, spawn_damage, spawn_speed_x10, s3) >>]

\* the game, and in last the same game with self.enemies in opposite order
InitCrowd ==
    /\ ai = InitAIRecord("aggressive")
    /\ entity = InitEntityRecord(0)
    /\ player = InitPlayerRecord(PlayerStart)
    /\ calls = 0
    /\ ops = 0
    /\ combat = IdleCombat
    /\ \E s1 \in CrowdSpotsFirst : \E s2 \in CrowdSpotsSecond : \E s3 \in CrowdSpotsThird :
          /\ game = InitCrowdRecord(s1, s2, s3)
          /\ last = [pc |-> "crowd",
                     reversed |-> [InitCrowdRecord(s1, s2, s3) EXCEPT
                                      !.enemies = ReverseList(@)]]

\* the keys held in a tick of the crowd
CrowdKeyChoices ==
    { NoKeys,
      [NoKeys EXCEPT !.w = TRUE],
      [NoKeys EXCEPT !.a = TRUE],
      [NoKeys EXCEPT !.d = TRUE],
      [NoKeys EXCEPT !.s = TRUE, !.d = TRUE] }

\* Game.update(dt) in state "playing", on both games with the same input
CrowdUpdate(keys, draw, enemy_crit) ==
    /\ game.current_state = "playing"
    /\ game.is_running
    /\ game.ticks < MaxCrowdTicks
    /\ game' = [update_gameplay(game, keys, draw, FALSE, FALSE, enemy_crit)
                EXCEPT !.ticks = @ + 1]
    /\ last' = [last EXCEPT !.reversed =
                   [update_gameplay(last.reversed, keys, draw, FALSE, FALSE, enemy_crit)
                    EXCEPT !.ticks = @ + 1]]
    /\ UNCHANGED << ai, entity, player, calls, ops, combat >>

NextCrowd ==
    \E keys \in CrowdKeyChoices : \E draw \in GameWanderDraws(game) :
       \E enemy_crit \in EnemyCritRolls(game) :
          CrowdUpdate(keys, draw, enemy_crit)

SpecCrowd == InitCrowd /\ [][NextCrowd]_vars

\* ------------------------------------------------------------------------
\* Claims about CombatSystem.perform_attack
\* ------------------------------------------------------------------------

\* C3: for all attack_power >= 0 and defense >= 0 and every outcome of the
\* critical and the block roll, perform_attack with the default physical
\* damage type returns damage >= 1.
C3_DamageAtLeastOne ==
    (combat.pc = "done" /\ combat.damage_type = "physical") => combat.damage >= 1

\* C3 witness: attack power 10 against defense 100, where only the floor of 1
\* keeps the damage positive
C3_Witness ==
    /\ combat.pc = "done" /\ combat.damage_type = "physical"
    /\ combat.attack_power = 10 /\ combat.defense = HugeDefense
    /\ combat.damage = 1

\* the damage formula of the specification, evaluated exactly (in quarters):
\* base = attack_power, times 1.5 on a critical hit, times 0.5 on a block, no
\* rounding in between; damage = max(1, floor(base - defense * 0.5))
ExactFormulaDamage(ap, df, crit, block) ==
    LET base_x4 == IF crit /\ block THEN 3 * ap
                   ELSE IF crit THEN 6 * ap
                   ELSE IF block THEN 2 * ap
                   ELSE 4 * ap
        floored == (base_x4 - 2 * df) \div 4
    IN  IF floored >= 1 THEN floored ELSE 1

\* the damage formula with the base truncated to a whole number after the
\* critical multiplier and again after the block factor
TruncatingFormulaDamage(ap, df, crit, block) ==
    LET b1 == IF crit THEN (3 * ap) \div 2 ELSE ap
        b2 == IF block THEN b1 \div 2 ELSE b1
    IN  IF 2 * b2 - df >= 2 THEN (2 * b2 - df) \div 2 ELSE 1

\* C10 as stated: the damage equals max(1, floor(base - defense*0.5)) with no
\* intermediate rounding of base.
C10_ExactFormula ==
    (combat.pc = "done" /\ combat.damage_type = "physical") =>
        combat.damage = ExactFormulaDamage(combat.attack_power, combat.defense,
                                           combat.is_critical, combat.is_blocked)

\* C10 amended: the damage equals max(1, floor(base - defense*0.5)) where base
\* is truncated to a whole number after the critical multiplier and after the
\* block factor; attack 10 against defense 0 without crit or block gives 10,
\* attack 10 against defense 100 gives 1.
C10_TruncatingFormula ==
    (combat.pc = "done" /\ combat.damage_type = "physical") =>
        /\ combat.damage =
              TruncatingFormulaDamage(combat.attack_power, combat.defense,
                                      combat.is_critical, combat.is_blocked)
        /\ (/\ combat.attack_power = 10 /\ combat.defense = 0
            /\ ~combat.is_critical /\ ~combat.is_blocked) => combat.damage = 10
        /\ (combat.attack_power = 10 /\ combat.defense = HugeDefense)
              => combat.damage = 1

\* C10 witness: a critical hit of attack power 3 against defense 1, where the
\* truncation of 4.5 to 4 lowers the damage from 4 to 3
C10_Witness ==
    /\ combat.pc = "done" /\ combat.damage_type = "physical"
    /\ combat.attack_power = 3 /\ combat.defense = 1
    /\ combat.is_critical /\ ~combat.is_blocked
    /\ combat.damage = 3


\* ------------------------------------------------------------------------
\* Claims about AI.update / AI.decide_action
\* ------------------------------------------------------------------------

\* the latest AI.update call found the entity alive and decided on an action
Decided == last.called /\ last.alive

\* the latest AI.update call saw the player: in the vision cone (which
\* includes the vision range) with no raycast hit
SawPlayer == last.in_cone /\ last.has_los

\* the bearing from the agent to a position, as move_towards_position sets it
BearingTo(pos) == Atan2Deg(pos[2] - entity.position[2], pos[1] - entity.position[1])

\* C1: for a live agent whose health / max_health is below its flee threshold
\* the state after AI.update is FLEE, whatever else holds (also with the
\* player visible and within attack range).
C1_FleeOverrides ==
    (Decided /\ last.flee) => ai.state = "flee"

\* C2: whenever AI.update leaves the agent in CHASE steering toward the
\* player's current position, the player is inside the vision cone, within
\* vision range, and the raycast to the player returned no hit.
C2_ChaseOnlyInSight ==
    ( /\ Decided
      /\ ai.state = "chase"
      /\ ai.target = "player"
      /\ entity.move_intent = 1
      /\ entity.desired_angle = BearingTo(player.position) )
    => SawPlayer

\* C6: with the target visible and the health not below the flee threshold,
\* AI.update leaves the agent in ATTACK when the target is within attack range
\* and the attack cooldown is 0, and in CHASE otherwise.
C6_AttackInRange ==
    (Decided /\ SawPlayer /\ ~last.flee) =>
        IF last.in_attack_range /\ last.cooldown = 0
        THEN ai.state = "attack"
        ELSE ai.state = "chase"

\* C7: once a target has been seen and is no longer visible, on every tick
\* with search_timer < search_duration the agent stays in CHASE, its desired
\* facing points at the last position where the target was visible, and
\* search_timer grows by exactly 1.
C7_SearchLastKnown ==
    ( /\ Decided
      /\ ~SawPlayer
      /\ ~last.flee
      /\ last.had_target
      /\ last.prev_visible_at # NonePos
      /\ last.prev_search_timer < search_duration )
    => /\ ai.state = "chase"
       /\ entity.desired_angle = BearingTo(last.prev_visible_at)
       /\ ai.search_timer = last.prev_search_timer + 1

\* C8: when the search timer has expired with the target not visible,
\* decide_action drops the target, zeroes search_timer, and the state is
\* PATROL with waypoints assigned and WANDER otherwise.
C8_SearchExpiry ==
    ( /\ Decided
      /\ ~SawPlayer
      /\ ~last.flee
      /\ last.had_target
      /\ last.prev_search_timer >= search_duration )
    => /\ ai.target = "none"
       /\ ai.search_timer = 0
       /\ ai.state = (IF last.has_waypoints THEN "patrol" ELSE "wander")

\* the absolute shortest angular difference between two whole-degree angles
ShortestArc(a, b) ==
    LET d == (a - b) % 360
    IN  IF d <= 180 THEN d ELSE 360 - d

\* the latest AI.update call found the player within half the field of view
\* of the agent's facing and within vision range
WithinCone ==
    LET cfg == BehaviorConfig(ai.behavior_type)
    IN  /\ 2 * ShortestArc(BearingTo(player.position), entity.direction_angle)
              <= cfg.fov_degrees
        /\ DistSq(entity.position, player.position)
              <= cfg.vision_range * cfg.vision_range

\* Scenario C: an Aggressive agent (FOV 90) at (100,100) facing 0 with the
\* player at (100,400)
ScenarioC ==
    /\ Decided
    /\ ai.behavior_type = "aggressive"
    /\ entity.position = << 100, 100 >> /\ entity.direction_angle = 0
    /\ player.position = << 100, 400 >>

\* C9 as stated: _player_in_vision_cone is true only within half the field of
\* view and the vision range; when it is false the decision is never CHASE or
\* ATTACK for a newly seen target, and an agent with no remembered target ends
\* in PATROL or WANDER even within detection range.
C9_ConeAsStated ==
    /\ (last.called /\ last.in_cone) => WithinCone
    /\ (Decided /\ ~last.in_cone /\ ~last.had_target)
          => ai.state \in {"patrol", "wander"}
    /\ ScenarioC => ~last.in_cone

\* C9 amended: as stated, except that an agent whose health ratio is below its
\* flee threshold ends in FLEE instead of PATROL or WANDER.
C9_ConeAmended ==
    /\ (last.called /\ last.in_cone) => WithinCone
    /\ (last.called /\ WithinCone) => last.in_cone
    /\ (Decided /\ ~last.in_cone /\ ~last.had_target)
          => /\ ai.state \notin {"chase", "attack"}
             /\ ai.state = (IF last.flee THEN "flee"
                            ELSE IF last.has_waypoints THEN "patrol"
                            ELSE "wander")
    /\ ScenarioC => /\ ~last.in_cone
                    /\ last.in_detection
                    /\ ~last.had_target => ai.state \in {"patrol", "wander"}

\* C9 witness: Scenario C with no remembered target; the agent wanders
C9_Witness ==
    /\ ScenarioC
    /\ ~last.had_target
    /\ last.in_detection
    /\ ai.state = "wander"

\* C4: once the AI state is DEAD no later step changes it, whatever combat or
\* heal operations are applied to the agent between the AI.update calls.
C4_DeadIsTerminal == [][ai.state = "dead" => ai'.state = "dead"]_vars


\* ------------------------------------------------------------------------
\* Claims about the gameplay tick
\* ------------------------------------------------------------------------

\* C5: after any gameplay tick in which an enemy still in the enemy list had
\* health <= 0 when its per-tick update was due, that enemy's AI state is DEAD.
C5_DeadWhenDue ==
    \A k \in game.due_dead : game.enemies[k].ai.state = "dead"

\* ------------------------------------------------------------------------
\* C11: critical hit against the same hit without the critical
\* ------------------------------------------------------------------------

\* the damage perform_attack returns for the attacker, defender, block outcome
\* and damage type of the recorded call when the critical roll fails
NonCriticalDamage ==
    perform_attack(combat.attack_power, combat.defense, DefenderHealth,
                   FALSE, combat.is_blocked, combat.damage_type).damage

CriticalCallDone == combat.pc = "done" /\ combat.is_critical

\* C11 as stated: with attack_power, defense and block outcome identical, the
\* damage perform_attack returns when the critical roll succeeds is strictly
\* greater than the damage it returns when the roll fails
C11_CritStrictlyGreater ==
    CriticalCallDone => combat.damage > NonCriticalDamage

\* C11 amended: the damage of the critical hit is never less than the damage
\* of the same hit without the critical, and it is strictly greater whenever
\* the hit without the critical deals at least 2
C11_CritNeverLess ==
    CriticalCallDone =>
        /\ combat.damage >= NonCriticalDamage
        /\ NonCriticalDamage >= 2 => combat.damage > NonCriticalDamage

\* a critical hit of attack_power 10 on defense 0 deals 15 where the plain hit
\* deals 10
C11_Witness ==
    /\ CriticalCallDone
    /\ ~combat.is_blocked
    /\ combat.attack_power = 10
    /\ combat.defense = 0
    /\ combat.damage = 15
    /\ NonCriticalDamage = 10


\* ------------------------------------------------------------------------
\* C12: damage against defense
\* ------------------------------------------------------------------------

\* the damage perform_attack returns for the attacker, roll outcomes and
\* damage type of the recorded call against a defender of defense df
DamageAtDefense(df) ==
    perform_attack(combat.attack_power, df, DefenderHealth,
                   combat.is_critical, combat.is_blocked, combat.damage_type).damage

DefenseValues == (0 .. MaxDefense) \cup {HugeDefense}

\* C12: with attack_power and the critical and block outcomes held fixed, the
\* damage perform_attack returns never increases with the defender's defense:
\* every larger defense gives at most the damage of the recorded call, every
\* smaller defense at least that damage
C12_DefenseNeverIncreasesDamage ==
    combat.pc = "done" =>
        \A df \in DefenseValues :
            /\ df >= combat.defense => DamageAtDefense(df) <= combat.damage
            /\ df <= combat.defense => DamageAtDefense(df) >= combat.damage

\* a plain physical hit of attack_power 10 deals 8 against defense 4, 10
\* against defense 0 and 1 against defense 100
C12_Witness ==
    /\ combat.pc = "done"
    /\ combat.damage_type = "physical"
    /\ ~combat.is_critical
    /\ ~combat.is_blocked
    /\ combat.attack_power = 10
    /\ combat.defense = 4
    /\ combat.damage = 8
    /\ DamageAtDefense(0) = 10
    /\ DamageAtDefense(HugeDefense) = 1

\* ------------------------------------------------------------------------
\* C13: health stays within 0 .. max_health
\* ------------------------------------------------------------------------

\* C13: after any sequence of perform_attack and heal operations on the
\* agent, which started with 0 <= health <= max_health, the agent's health
\* satisfies 0 <= health <= max_health
C13_HealthWithinBounds ==
    /\ 0 <= entity.health
    /\ entity.health <= entity.max_health

\* ------------------------------------------------------------------------
\* C14: fleeing faces away from the player
\* ------------------------------------------------------------------------

\* the bearing from the player's position through the agent's, which points
\* from the agent directly away from the player
BearingAwayFromPlayer ==
    Atan2Deg(entity.position[2] - player.position[2],
             entity.position[1] - player.position[1]) % 360

\* C14: when AI.update leaves a live agent in FLEE with the player at
\* non-zero distance, the agent's desired facing is the bearing pointing
\* directly away from the player and its move_intent is +1
C14_FleeFacesAway ==
    (Decided /\ ai.state = "flee" /\ player.position # entity.position) =>
        /\ entity.desired_angle = BearingAwayFromPlayer
        /\ entity.move_intent = 1

\* ------------------------------------------------------------------------
\* C15: the collision side and the clamp
\* ------------------------------------------------------------------------

\* the four overlap depths of the body before the pass against an obstacle
OverlapLeft(w)   == (last.before.rect.x + last.before.rect.w) - w.x
OverlapRight(w)  == (w.x + w.w) - last.before.rect.x
OverlapTop(w)    == (last.before.rect.y + last.before.rect.h) - w.y
OverlapBottom(w) == (w.y + w.h) - last.before.rect.y

\* the least of the four depths
LeastOverlap(w) ==
    Min(Min(OverlapLeft(w), OverlapRight(w)), Min(OverlapTop(w), OverlapBottom(w)))

\* the side of least depth, ties broken left, right, top, bottom
LeastSide(w) ==
    CASE OverlapLeft(w)  = LeastOverlap(w) -> "left"
      [] OverlapLeft(w)  # LeastOverlap(w) /\ OverlapRight(w) = LeastOverlap(w) -> "right"
      [] OverlapLeft(w)  # LeastOverlap(w) /\ OverlapRight(w) # LeastOverlap(w)
                                           /\ OverlapTop(w) = LeastOverlap(w) -> "top"
      [] OTHER -> "bottom"

\* a pass was made over a single obstacle that the body overlapped
OverlappingPairResolved ==
    /\ last.pc \in {"player", "enemy"}
    /\ Len(last.walls) = 1
    /\ colliderect(last.before.rect, last.walls[1])

\* C15: for an overlapping pair of body and obstacle, get_collision_side
\* returns the side of least overlap depth, ties broken in the order left,
\* right, top, bottom, and the caller moves only the body's edge on that side
\* onto the obstacle's edge: the rect keeps its size and its other coordinate
C15_LeastOverlapSide ==
    OverlappingPairResolved =>
        LET w == last.walls[1]
            b == last.before.rect
            r == last.after.rect
        IN  /\ last.side = LeastSide(w)
            /\ r.w = b.w /\ r.h = b.h
            /\ last.side = "left"   => (r.x + r.w = w.x       /\ r.y = b.y)
            /\ last.side = "right"  => (r.x = w.x + w.w       /\ r.y = b.y)
            /\ last.side = "top"    => (r.y + r.h = w.y       /\ r.x = b.x)
            /\ last.side = "bottom" => (r.y = w.y + w.h       /\ r.x = b.x)

\* Scenario E: the player pass on the rect (0,0,32,32) against the wall
\* (20,0,32,32), depths left 12, right 52, top 32, bottom 32, resolves to left
\* and puts the body's right edge at 20
C15_Witness ==
    /\ last.pc = "player"
    /\ OverlappingPairResolved
    /\ last.before.rect = Rect(0, 0, 32, 32)
    /\ last.walls[1] = Rect(20, 0, 32, 32)
    /\ OverlapLeft(last.walls[1]) = 12
    /\ OverlapRight(last.walls[1]) = 52
    /\ OverlapTop(last.walls[1]) = 32
    /\ OverlapBottom(last.walls[1]) = 32
    /\ last.side = "left"
    /\ last.after.rect = Rect(-12, 0, 32, 32)

\* ------------------------------------------------------------------------
\* C16: resolving a body that overlaps nothing
\* ------------------------------------------------------------------------

\* the body overlapped none of the obstacles before the pass
OverlapsNothing ==
    \A i \in 1 .. Len(last.walls) : ~colliderect(last.before.rect, last.walls[i])

\* C16: when the body overlaps no obstacle, the player-wall pass and the
\* agent-wall pass leave both its collision rect and its logical position
\* exactly unchanged
C16_NoOverlapNoChange ==
    (last.pc \in {"player", "enemy"} /\ OverlapsNothing) =>
        /\ last.after.rect = last.before.rect
        /\ last.after.position = last.before.position

\* ------------------------------------------------------------------------
\* C17: the rotation converges
\* ------------------------------------------------------------------------

\* ceil(180 / rotation_speed)
RotationTicksNeeded == (180 + rotation_speed - 1) \div rotation_speed

\* C17: for every initial facing and every fixed desired angle, after
\* ceil(180 / rotation_speed) rotation ticks of Enemy.update, and after every
\* later tick, the facing is within rotation_speed degrees of the desired angle
C17_RotationConverges ==
    calls >= RotationTicksNeeded =>
        ShortestArc(entity.direction_angle, entity.desired_angle) <= rotation_speed

\* an agent that started opposite to its desired angle has needed all the
\* ticks and now faces the desired angle
C17_Witness ==
    /\ last.pc = "rotation"
    /\ ShortestArc(last.direction_angle, entity.desired_angle) = 180
    /\ calls = RotationTicksNeeded
    /\ entity.direction_angle = entity.desired_angle

\* ------------------------------------------------------------------------
\* C18: the player's attack is resolved once per press-to-cooldown cycle
\* ------------------------------------------------------------------------

\* in this tick Player.handle_input started a cycle: the cooldown was 0 and
\* is attack_cooldown_time less the decrement of Player.update
CycleStarts ==
    /\ game.player.attack_cooldown = 0
    /\ game'.player.attack_cooldown = attack_cooldown_time - 1

\* in this tick _update_gameplay resolved the player's hitbox against the
\* agents: only that branch turns _attack_processed on
AttackResolved ==
    /\ ~game.player.attack_processed
    /\ game'.player.attack_processed

\* in this tick the health of the k-th agent went down
AgentHit(k) == game'.enemies[k].health < game.enemies[k].health

\* C18: the hitbox of the player's attack is resolved in the tick that
\* starts a press-to-cooldown cycle and in no other tick, so an agent loses
\* health to the player at most once per cycle, whatever is_attacking and
\* the button do in the ticks between
C18_ResolvedOncePerCycle ==
    [][ /\ AttackResolved <=> CycleStarts
        /\ \A k \in 1 .. Len(game.enemies) : AgentHit(k) => CycleStarts ]_vars

\* the first tick of the second cycle: a basic agent in the hitbox has been
\* hit exactly twice in 31 ticks, once for each press
C18_Witness ==
    /\ game.current_state = "playing"
    /\ game.ticks = attack_cooldown_time + 1
    /\ game.player.is_attacking
    /\ game.player.attack_processed
    /\ game.player.attack_cooldown = attack_cooldown_time - 1
    /\ game.enemies[1].listed
    /\ check_collision(player_get_attack_rect(game.player), game.enemies[1].rect)
    /\ game.enemies[1].health = spawn_health - 2 * game.player.attack_power

\* ------------------------------------------------------------------------
\* C19: a defeated agent is removed in the next tick, with one defeat event
\* ------------------------------------------------------------------------

\* the agents in the enemy list whose health is <= 0: those the tick before
\* has defeated
DefeatedListed ==
    { k \in 1 .. Len(game.enemies) :
         game.enemies[k].listed /\ game.enemies[k].health <= 0 }

\* the 50 exp of one defeat reach the player in this tick (a level-up sets
\* exp back to 0)
RewardedOnce ==
    \/ /\ game.player.exp + defeat_exp < game.player.max_exp
       /\ game'.player.exp = game.player.exp + defeat_exp
       /\ game'.player.level = game.player.level
    \/ /\ game.player.exp + defeat_exp >= game.player.max_exp
       /\ game'.player.exp = 0
       /\ game'.player.level = game.player.level + 1

\* C19: a gameplay tick removes from the enemy list exactly the agents whose
\* health had reached <= 0 in the tick before, emits one defeat notification
\* and one 50 exp reward for each of them, and emits none for any other
\* agent: a removed agent never comes back and is never rewarded again
C19_RemovedNextTickOneEvent ==
    [][ /\ \A k \in 1 .. Len(game.enemies) :
              game'.enemies[k].listed <=> (game.enemies[k].listed /\ k \notin DefeatedListed)
        /\ game'.defeat_notifications
              = game.defeat_notifications + Cardinality(DefeatedListed)
        /\ Cardinality(DefeatedListed) = 1 => RewardedOnce
        /\ DefeatedListed = {} => /\ game'.player.exp = game.player.exp
                                  /\ game'.player.level = game.player.level ]_vars

\* the agent was defeated in tick 1 and removed in tick 2; after tick 3 there
\* is still one notification and one reward of 50 exp
C19_Witness ==
    /\ game.current_state = "playing"
    /\ game.ticks = 3
    /\ ~game.enemies[1].listed
    /\ game.enemies[1].health <= 0
    /\ game.defeat_notifications = 1
    /\ game.player.exp = 350 + defeat_exp

\* ------------------------------------------------------------------------
\* C20: the order of the phases within a tick
\* ------------------------------------------------------------------------

\* C20, the order "combat resolution, then removal of defeated agents" of
\* each tick: the removal phase runs after the combat of the same tick, so
\* at the end of a gameplay tick no agent with health <= 0 is left in the
\* enemy list
C20_RemovalFollowsCombat ==
    (game.current_state # "none" /\ game.ticks >= 1) =>
        \A k \in 1 .. Len(game.enemies) :
            game.enemies[k].listed => game.enemies[k].health > 0

\* ------------------------------------------------------------------------
\* C21: the AI decisions do not depend on the order of the enemy list
\* ------------------------------------------------------------------------

\* what the AI decided for an agent: state, desired facing, move intent
Decision(en) ==
    [state |-> en.ai.state, desired_angle |-> en.desired_angle,
     move_intent |-> en.move_intent]

\* C21: after every tick each agent's AI decision (state, desired facing,
\* move intent) is the same whether the enemy list was iterated in its order
\* or in the opposite order
C21_DecisionOrderIndependent ==
    \A k \in 1 .. Len(game.enemies) :
        Decision(game.enemies[k])
            = Decision(last.reversed.enemies[Len(game.enemies) + 1 - k])

\* ------------------------------------------------------------------------
\* Claims about the attack cooldowns in the gameplay tick
\* ------------------------------------------------------------------------

\* the player's cooldown over one tick: it counts down by one while positive,
\* and from 0 it either stays 0 or is re-armed by a press to
\* attack_cooldown_time, which Player.update of the same tick counts down once
PlayerCooldownStep ==
    IF game.player.attack_cooldown > 0
    THEN game'.player.attack_cooldown = game.player.attack_cooldown - 1
    ELSE \/ game'.player.attack_cooldown = 0
         \/ /\ game'.player.attack_cooldown = attack_cooldown_time - 1
            /\ game'.player.is_attacking

\* the cooldown of the enemy k over one tick: Enemy.update counts it down by
\* one while positive, and the combat phase re-arms it to base_attack_cooldown
\* only when the count has reached 0 and the attack is triggered
EnemyCooldownStep(k) ==
    LET counted == IF game.enemies[k].attack_cooldown > 0
                   THEN game.enemies[k].attack_cooldown - 1 ELSE 0
    IN  \/ game'.enemies[k].attack_cooldown = counted
        \/ /\ counted = 0
           /\ game'.enemies[k].attack_cooldown = game.enemies[k].base_attack_cooldown
           /\ game'.enemies[k].is_attacking
           /\ check_collision(enemy_get_attack_rect(game'.enemies[k]),
                              game'.player.rect)

\* C22: the attack cooldown of the player and of every listed enemy is a
\* natural number in every state, counts down by exactly one per tick while
\* positive, never goes below 0, and grows only in a tick in which an attack
\* is triggered, where it is re-armed to the body's base cooldown
C22_CooldownCountsDown ==
    /\ [](/\ game.player.attack_cooldown \in Nat
          /\ \A k \in 1 .. Len(game.enemies) :
                game.enemies[k].attack_cooldown \in Nat)
    /\ [][/\ PlayerCooldownStep
          /\ \A k \in 1 .. Len(game.enemies) :
                (game.enemies[k].listed /\ game'.enemies[k].listed)
                    => EnemyCooldownStep(k)]_vars

\* the player has re-armed a second time after a whole countdown, while an
\* enemy that has attacked is counting down
C22_Witness ==
    /\ game.ticks > attack_cooldown_time
    /\ game.player.attack_cooldown = attack_cooldown_time - 1
    /\ \E k \in 1 .. Len(game.enemies) :
          /\ game.enemies[k].listed
          /\ game.enemies[k].attack_cooldown > 0
          /\ game.enemies[k].attack_cooldown < game.enemies[k].base_attack_cooldown

\* ------------------------------------------------------------------------
\* Claims about the facing angles in the gameplay tick
\* ------------------------------------------------------------------------

\* C23: after every tick the facing angle of the player and of every enemy
\* lies in [0, 360), whatever keys turned the player and whatever angle the
\* AI desired
C23_FacingInRange ==
    /\ game.player.direction_angle \in 0 .. 359
    /\ \A k \in 1 .. Len(game.enemies) :
          game.enemies[k].direction_angle \in 0 .. 359

\* the player has turned left twice from facing 0, through the wrap, and an
\* enemy has turned from facing 0 to an angle below 360
C23_Witness ==
    /\ game.ticks = 2
    /\ game.player.direction_angle = 360 - 2 * rotation_speed
    /\ \E k \in 1 .. Len(game.enemies) :
          game.enemies[k].direction_angle \in 350 .. 359

\* ------------------------------------------------------------------------
\* The lifecycle of a Game: start, pause, resume and end called in any order
\* on a new Game; last keeps the calls made
\* ------------------------------------------------------------------------

\* lifecycle calls followed
MaxLifecycleCalls == 4

\* Game.__init__: current_state and is_running of a new Game
NewGame == [current_state |-> "menu", is_running |-> FALSE]

InitLifecycle ==
    /\ ai = InitAIRecord("aggressive")
    /\ entity = InitEntityRecord(0)
    /\ player = InitPlayerRecord(PlayerStart)
    /\ calls = 0
    /\ ops = 0
    /\ combat = IdleCombat
    /\ game = NewGame
    /\ last = [pc |-> "lifecycle", history |-> << >>]

\* the call is recorded
Called(name) ==
    /\ Len(last.history) < MaxLifecycleCalls
    /\ last' = [last EXCEPT !.history = Append(@, name)]
    /\ UNCHANGED << ai, entity, player, calls, ops, combat >>

\* Game.start()
Start ==
    /\ Called("start")
    /\ game' = [game EXCEPT !.current_state = "playing", !.is_running = TRUE]

\* Game.pause(), faulty variant: the state is not tested
PauseAnyState ==
    /\ Called("pause")
    /\ game' = [game EXCEPT !.current_state = "paused", !.is_running = FALSE]

\* Game.pause()
Pause ==
    /\ Called("pause")
    /\ game' = IF game.current_state = "playing"
               THEN [game EXCEPT !.current_state = "paused", !.is_running = FALSE]
               ELSE game

\* Game.resume()
Resume ==
    /\ Called("resume")
    /\ game' = IF game.current_state = "paused"
               THEN [game EXCEPT !.current_state = "playing", !.is_running = TRUE]
               ELSE game

\* Game.end()
End ==
    /\ Called("end")
    /\ game' = [game EXCEPT !.is_running = FALSE, !.current_state = "quit"]

NextLifecycle == Start \/ Pause \/ Resume \/ End

SpecLifecycle == InitLifecycle /\ [][NextLifecycle]_vars

\* ------------------------------------------------------------------------
\* Claims about the lifecycle of a Game
\* ------------------------------------------------------------------------

\* the call made last, "new" for a Game no call was made on
LastCall(history) ==
    IF Len(history) = 0 THEN "new" ELSE history[Len(history)]

\* the call name made in this step
CallMade == LastCall(last'.history)

\* C24: a new Game is not running; start() makes is_running true, pause()
\* right after start() and end() make it false; after any sequence of
\* start/pause/resume/end calls is_running holds exactly when current_state
\* is "playing"; pause() changes the game only in state "playing" and
\* resume() only in state "paused"
C24_Lifecycle ==
    /\ [](/\ LastCall(last.history) = "new" => ~game.is_running
          /\ LastCall(last.history) = "start" => game.is_running
          /\ LastCall(last.history) = "end" => ~game.is_running
          /\ ( /\ Len(last.history) >= 2
               /\ SubSeq(last.history, Len(last.history) - 1, Len(last.history))
                     = << "start", "pause" >> ) => ~game.is_running
          /\ game.is_running <=> game.current_state = "playing")
    /\ [][/\ (CallMade = "pause" /\ game.current_state # "playing")
                 => game' = game
          /\ (CallMade = "resume" /\ game.current_state # "paused")
                 => game' = game
          /\ (CallMade = "pause" /\ game.current_state = "playing")
                 => game'.current_state = "paused"
          /\ (CallMade = "resume" /\ game.current_state = "paused")
                 => game'.current_state = "playing"]_vars

\* a game that was started, paused, resumed and ended
C24_Witness ==
    /\ last.history = << "start", "pause", "resume", "end" >>
    /\ game.current_state = "quit"
    /\ ~game.is_running

\* ------------------------------------------------------------------------
\* Claims about the enemies' attacks in the combat phase
\* ------------------------------------------------------------------------

\* the combat phase of this tick has resolved an attack of the enemy k: the
\* branch that calls perform_attack re-arms the cooldown that Enemy.update had
\* counted down to 0
EnemyAttackResolved(k) ==
    /\ game'.enemies[k].listed
    /\ game.enemies[k].attack_cooldown <= 1
    /\ game'.enemies[k].attack_cooldown = game.enemies[k].base_attack_cooldown

\* the AI of the enemy k has triggered an attack in this tick: attack_target
\* found the AI's cooldown at 0, set is_attacking and re-armed the AI's
\* cooldown
AITriggered(k) ==
    /\ game'.enemies[k].ai.state = "attack"
    /\ game'.enemies[k].ai.attack_cooldown = attack_cooldown_max

\* C25: in the combat phase the attack of an enemy on the player is resolved
\* exactly when its AI has triggered the attack, its cooldown is 0 and its
\* attack hitbox overlaps the player's rect; an enemy whose AI has not
\* triggered an attack never damages the player
C25_ResolvedIffTriggered ==
    [][\A k \in 1 .. Len(game.enemies) :
          EnemyAttackResolved(k)
              <=> /\ game'.enemies[k].listed
                  /\ AITriggered(k)
                  /\ game.enemies[k].attack_cooldown <= 1
                  /\ check_collision(enemy_get_attack_rect(game'.enemies[k]),
                                     game'.player.rect)]_vars

\* ------------------------------------------------------------------------
\* Claims about AI.patrol
\* ------------------------------------------------------------------------

\* the agent was waiting at a waypoint when this step, an AI.update call (no
\* combat operation), began and is in PATROL after it
WaitingInPatrol ==
    /\ ops' = ops
    /\ ai'.state = "patrol"
    /\ Len(ai.patrol_points) >= 1
    /\ ai.patrol_wait_counter > 0

\* the agent has arrived at its current waypoint in this step: a wait starts
ArrivedAtWaypoint ==
    /\ Len(ai.patrol_points) >= 1
    /\ ai'.patrol_wait_counter > ai.patrol_wait_counter

\* C26 as stated: with n >= 1 waypoints the cursor current_patrol_index lies
\* in [0, n); while the agent waits at a waypoint in PATROL its move_intent is
\* 0; and the cursor advances, to (i + 1) mod n, only once the wait has
\* elapsed, never while a wait is running
C26_PatrolCursor ==
    /\ [](Len(ai.patrol_points) >= 1
             => ai.current_patrol_index \in 0 .. Len(ai.patrol_points) - 1)
    /\ [][/\ WaitingInPatrol => entity'.move_intent = 0
          /\ ai'.current_patrol_index # ai.current_patrol_index
                => /\ ai'.current_patrol_index
                         = (ai.current_patrol_index + 1) % Len(ai.patrol_points)
                   /\ ai'.patrol_wait_counter = 0]_vars

\* C26, amended: with n >= 1 waypoints the cursor lies in [0, n); on arrival
\* at the current waypoint (distance < 10, no wait running) the cursor
\* advances at once to (i + 1) mod n and a wait of patrol_wait_time ticks
\* starts; while the agent waits in PATROL the wait counts down by one, the
\* cursor stays and move_intent is 0; the cursor changes in no other step
C26_AdvanceOnArrival ==
    /\ [](Len(ai.patrol_points) >= 1
             => ai.current_patrol_index \in 0 .. Len(ai.patrol_points) - 1)
    /\ [][/\ ArrivedAtWaypoint
                => /\ ai.patrol_wait_counter = 0
                   /\ ai'.state = "patrol"
                   /\ DistanceLT(entity.position,
                                 ai.patrol_points[ai.current_patrol_index + 1],
                                 arrival_radius)
                   /\ ai'.patrol_wait_counter = patrol_wait_time
                   /\ ai'.current_patrol_index
                         = (ai.current_patrol_index + 1) % Len(ai.patrol_points)
                   /\ entity'.move_intent = 0
          /\ WaitingInPatrol
                => /\ ai'.patrol_wait_counter = ai.patrol_wait_counter - 1
                   /\ ai'.current_patrol_index = ai.current_patrol_index
                   /\ entity'.move_intent = 0
          /\ ai'.current_patrol_index # ai.current_patrol_index
                => ArrivedAtWaypoint]_vars

\* the agent has arrived at the first of two waypoints, has waited the whole
\* wait out and heads for the second one
C26_Witness ==
    /\ ai.state = "patrol"
    /\ Len(ai.patrol_points) = 2
    /\ ai.current_patrol_index = 1
    /\ ai.patrol_wait_counter = 0
    /\ entity.move_intent = 1

\* ------------------------------------------------------------------------
\* The status effects of the CombatSystem on one target: records are
\* registered and update_effects is called with the target in its list.
\* combat holds the target's health and its list in active_effects; calls
\* counts the update_effects calls; last keeps, for every record registered,
\* what it was registered with and how often it has been applied (the field
\* id of a record is its object identity)
\* ------------------------------------------------------------------------

\* records registered and update_effects calls followed
MaxEffects == 2
MaxEffectCalls == 7

\* duration_ticks and tick_rate the records are registered with
EffectDurations == {1, 2, 3}
EffectTickRates == {1, 2, 3}

\* damage_per_tick and heal_per_tick the records are registered with
EffectDamage == 3
EffectHeal == 2

\* health of the target
EffectTargetHealth == 50

\* apply_damage_over_time: tick_rate when the caller passes none
default_tick_rate == 60

InitEffects ==
    /\ ai = InitAIRecord("aggressive")
    /\ entity = InitEntityRecord(0)
    /\ player = InitPlayerRecord(PlayerStart)
    /\ calls = 0
    /\ ops = 0
    /\ game = NoGame
    /\ combat = [pc |-> "effects", health |-> EffectTargetHealth,
                 active_effects |-> << >>]
    /\ last = [pc |-> "effects", registered |-> << >>, applied |-> << >>]

\* the record is appended to the target's list, and noted
Registered(effect, tick_rate) ==
    /\ ops < MaxEffects
    /\ ops' = ops + 1
    /\ combat' = [combat EXCEPT !.active_effects = Append(@, effect)]
    /\ last' = [last EXCEPT
                   !.registered = Append(@, [type |-> effect.type,
                                             duration_ticks |-> effect.remaining_ticks,
                                             tick_rate |-> tick_rate,
                                             at |-> calls]),
                   !.applied = Append(@, 0)]
    /\ UNCHANGED << ai, entity, player, calls, game >>

\* CombatSystem.apply_damage_over_time(target, damage_per_tick,
\* duration_ticks, tick_rate)
ApplyDamageOverTime(damage_per_tick, duration_ticks, tick_rate) ==
    Registered([type            |-> "damage_over_time",
                damage_per_tick |-> damage_per_tick,
                remaining_ticks |-> duration_ticks,
                tick_rate       |-> tick_rate,
                current_tick    |-> 0,
                id              |-> ops + 1],
               tick_rate)

\* CombatSystem.apply_heal_over_time(target, heal_per_tick, duration_ticks):
\* the record has no tick_rate
ApplyHealOverTime(heal_per_tick, duration_ticks) ==
    Registered([type            |-> "heal_over_time",
                heal_per_tick   |-> heal_per_tick,
                remaining_ticks |-> duration_ticks,
                current_tick    |-> 0,
                id              |-> ops + 1],
               default_tick_rate)

\* update_effects: whether the record, its current_tick already incremented,
\* is applied in this call
effect_applies(effect) ==
    IF effect.type = "damage_over_time"
    THEN effect.current_tick % effect.tick_rate = 0
    ELSE TRUE

\* update_effects, faulty variant of the body of the loop: a
\* damage-over-time record is applied in every call
effect_step_everycall(effect) ==
    [effect EXCEPT !.current_tick = @ + 1, !.remaining_ticks = @ - 1]

\* update_effects, the body of the loop for one record: current_tick is
\* incremented and remaining_ticks counted down when the record is applied
effect_step(effect) ==
    IF effect_applies([effect EXCEPT !.current_tick = @ + 1])
    THEN [effect EXCEPT !.current_tick = @ + 1, !.remaining_ticks = @ - 1]
    ELSE [effect EXCEPT !.current_tick = @ + 1]

\* update_effects: what the record that was just applied does to the health
effect_amount(effect) ==
    IF effect.type = "damage_over_time" THEN - effect.damage_per_tick
    ELSE effect.heal_per_tick

\* update_effects, the loop over the records from index k on: the health
\* after it and the records as they are stepped
RECURSIVE update_effects(_, _, _)
update_effects(health, effects, k) ==
    IF k > Len(effects) THEN [health |-> health, effects |-> effects]
    ELSE LET stepped == effect_step(effects[k])
         IN  update_effects(
                 IF stepped.remaining_ticks < effects[k].remaining_ticks
                 THEN health + effect_amount(stepped) ELSE health,
                 [effects EXCEPT ![k] = stepped], k + 1)

\* update_effects: "Clean up expired effects"
Unexpired(effect) == effect.remaining_ticks > 0

\* the records of the list that were applied in the call
AppliedIds(before, after) ==
    { before[k].id : k \in { j \in 1 .. Len(before) :
                               after[j].remaining_ticks < before[j].remaining_ticks } }

\* CombatSystem.update_effects([target])
UpdateEffects ==
    /\ calls < MaxEffectCalls
    /\ calls' = calls + 1
    /\ LET r == update_effects(combat.health, combat.active_effects, 1)
       IN  /\ combat' = [combat EXCEPT
                            !.health = r.health,
                            !.active_effects = SelectSeq(r.effects, Unexpired)]
           /\ last' = [last EXCEPT
                          !.applied =
                              [i \in 1 .. Len(@) |->
                                  IF i \in AppliedIds(combat.active_effects, r.effects)
                                  THEN @[i] + 1 ELSE @[i]]]
    /\ UNCHANGED << ai, entity, player, ops, game >>

NextEffects ==
    \/ \E n \in EffectDurations : \E r \in EffectTickRates :
          ApplyDamageOverTime(EffectDamage, n, r)
    \/ \E n \in EffectDurations : ApplyHealOverTime(EffectHeal, n)
    \/ UpdateEffects

SpecEffects == InitEffects /\ [][NextEffects]_vars

\* ------------------------------------------------------------------------
\* Claims about the status effects
\* ------------------------------------------------------------------------

\* the ids of the records in the target's list
ActiveIds == { combat.active_effects[k].id : k \in 1 .. Len(combat.active_effects) }

\* every record in the list has counted the update_effects calls since it
\* was registered, has applications left, and has been applied as often as
\* its duration has gone down; a record no longer in the list has been
\* applied exactly as often as its duration says
EffectsAccounted ==
    /\ \A k \in 1 .. Len(combat.active_effects) :
          LET effect == combat.active_effects[k]
          IN  /\ effect.current_tick = calls - last.registered[effect.id].at
              /\ effect.remaining_ticks >= 1
              /\ last.applied[effect.id] + effect.remaining_ticks
                    = last.registered[effect.id].duration_ticks
    /\ \A i \in 1 .. Len(last.registered) :
          i \notin ActiveIds
              => last.applied[i] = last.registered[i].duration_ticks

\* the record i is applied in this step
AppliedNow(i) ==
    /\ i <= Len(last.applied)
    /\ last'.applied[i] > last.applied[i]

\* update_effects calls the record i has seen after this step
ElapsedNext(i) == calls' - last.registered[i].at

\* C27 as stated: every record, damage-over-time or heal-over-time, counts
\* each update_effects call, is applied only on the calls where its elapsed
\* ticks reach a multiple of the tick rate (for a heal-over-time record, which
\* stores none, the rate the API registers by default), is applied exactly
\* duration_ticks times and is discarded when remaining_ticks reaches 0
C27_AppliedAtTickRate ==
    /\ []EffectsAccounted
    /\ [][\A i \in 1 .. Len(last.registered) :
             AppliedNow(i)
                 <=> /\ i \in ActiveIds
                     /\ calls' = calls + 1
                     /\ ElapsedNext(i) % last.registered[i].tick_rate = 0]_vars

\* C27, amended: every record counts each update_effects call, is applied
\* exactly duration_ticks times and is discarded when remaining_ticks reaches
\* 0; a damage-over-time record is applied on the calls where its elapsed
\* ticks reach a multiple of its tick rate, a heal-over-time record on every
\* call
C27_EffectsRunTheirCourse ==
    /\ []EffectsAccounted
    /\ [][\A i \in 1 .. Len(last.registered) :
             AppliedNow(i)
                 <=> /\ i \in ActiveIds
                     /\ calls' = calls + 1
                     /\ \/ last.registered[i].type = "heal_over_time"
                        \/ ElapsedNext(i) % last.registered[i].tick_rate = 0]_vars

\* a damage-over-time record of duration 2 and tick rate 3 and a
\* heal-over-time record of duration 3 have both run their course
C27_Witness ==
    /\ Len(last.registered) = 2
    /\ last.registered[1].type = "damage_over_time"
    /\ last.registered[1].duration_ticks = 2
    /\ last.registered[1].tick_rate = 3
    /\ last.registered[2].type = "heal_over_time"
    /\ last.registered[2].duration_ticks = 3
    /\ last.applied = << 2, 3 >>
    /\ combat.active_effects = << >>
    /\ combat.health = EffectTargetHealth - 2 * EffectDamage + 3 * EffectHeal

\* ------------------------------------------------------------------------
\* The steps of the gameplay tick that normalise by a distance, on their own:
\* two enemies spawned on tiles at and around the player's tile.  last keeps
\* the step taken last and the game before it; calls counts the steps
\* ------------------------------------------------------------------------

\* steps followed
MaxSeparationSteps == 2

\* FloorGenerator.spawn_enemies: spawn points are tile corners; the player's
\* tile, the tiles next to it and one two tiles away
SeparationSpots ==
    { << 416, 288 >>, << 448, 288 >>, << 384, 288 >>, << 416, 320 >>,
      << 448, 320 >>, << 384, 256 >>, << 480, 288 >> }

\* the state _start_play leaves, with two enemies spawned
InitSeparation ==
    /\ ai = InitAIRecord("aggressive")
    /\ entity = InitEntityRecord(0)
    /\ player = InitPlayerRecord(PlayerStart)
    /\ calls = 0
    /\ ops = 0
    /\ combat = IdleCombat
    /\ \E t1 \in SpawnTypes : \E t2 \in SpawnTypes :
          \E s1 \in SeparationSpots : \E s2 \in SeparationSpots :
             /\ game = [InitGameRecord(t1, s1, FALSE, 0) EXCEPT
                           !.enemies = << NewEnemy(t1, spawn_health, spawn_damage,
                                                   spawn_speed_x10, s1),
                                          NewEnemy(t2, spawn_health, spawn_damage,
                                                   spawn_speed_x10, s2) >>]
             /\ last = [pc |-> "separation", step |-> "none", k |-> 0,
                        before |-> NoGame]

\* the step is noted with the game before it
StepTaken(step, k) ==
    /\ calls < MaxSeparationSteps
    /\ calls' = calls + 1
    /\ last' = [last EXCEPT !.step = step, !.k = k, !.before = game]
    /\ UNCHANGED << ai, entity, player, ops, combat >>

\* Game._update_gameplay, "Maintain minimum distance between player and
\* enemies"
SeparatePlayerEnemies ==
    /\ StepTaken("player_enemy", 0)
    /\ game' = [game EXCEPT
                   !.enemies = separate_player_enemies(game.player, @, 1)]

\* Game._update_gameplay, "Prevent enemies from overlapping each other"
SeparateEnemies ==
    /\ StepTaken("enemy_enemy", 0)
    /\ game' = [game EXCEPT !.enemies = separate_enemies(@, 1, 2)]

\* AI.flee_from_target(player) of the enemy k
FleeFromTarget(k) ==
    /\ StepTaken("flee", k)
    /\ game' = [game EXCEPT
                   !.enemies[k] =
                       [flee_from_target(AIView(@), PxOf(game.player.position))
                           EXCEPT !.position = game.enemies[k].position]]

NextSeparation ==
    \/ SeparatePlayerEnemies
    \/ SeparateEnemies
    \/ \E k \in 1 .. Len(game.enemies) : FleeFromTarget(k)

SpecSeparation == InitSeparation /\ [][NextSeparation]_vars

\* ------------------------------------------------------------------------
\* Claims about the separation steps
\* ------------------------------------------------------------------------

\* the least distance the player-enemy separation keeps between the centres
MinDistance(p, en) == p.size \div 2 + en.size \div 2 + player_enemy_buffer

\* pixels the centre of a rect can lose against its position when the
\* position is truncated on both axes
TruncationSlack == 2

\* C28: the player-enemy separation step changes nothing of the player and,
\* of an enemy, only its position and rect; every enemy whose centre was
\* closer to the player's than min_distance is, after the step, at least
\* min_distance away (up to the truncation of the rect)
C28_SeparationPushesAgentOut ==
    last.step = "player_enemy"
        => /\ game.player = last.before.player
           /\ \A k \in 1 .. Len(game.enemies) :
                 /\ [game.enemies[k] EXCEPT
                        !.position = last.before.enemies[k].position,
                        !.rect = last.before.enemies[k].rect]
                       = last.before.enemies[k]
                 /\ DistanceLT(CenterOf(last.before.enemies[k].rect),
                               CenterOf(game.player.rect),
                               MinDistance(game.player, game.enemies[k]))
                       => ~DistanceLT(CenterOf(game.enemies[k].rect),
                                      CenterOf(game.player.rect),
                                      MinDistance(game.player, game.enemies[k])
                                          - TruncationSlack)

\* the centres of the rects of two bodies coincide
SameCentre(b1, b2) == CenterOf(b1.rect) = CenterOf(b2.rect)

\* C29: an operation that normalises by a distance does nothing when the
\* distance is 0: the player-enemy separation leaves an enemy whose centre
\* coincides with the player's where it is, and the player too; the
\* enemy-enemy separation leaves two enemies with the same centre where they
\* are; AI.flee_from_target of an enemy at the player's position sets no move
\* intent and no desired angle.  (A division by zero would stop the
\* evaluation of the step.)
C29_ZeroDistanceSkipped ==
    /\ last.step = "player_enemy"
          => /\ game.player = last.before.player
             /\ \A k \in 1 .. Len(game.enemies) :
                   SameCentre(last.before.enemies[k], last.before.player)
                       => game.enemies[k] = last.before.enemies[k]
    /\ last.step = "enemy_enemy"
          => ( SameCentre(last.before.enemies[1], last.before.enemies[2])
                  => game.enemies = last.before.enemies )
    /\ last.step = "flee"
          => ( PxOf(last.before.enemies[last.k].position)
                      = PxOf(last.before.player.position)
                  => /\ game.enemies[last.k] = last.before.enemies[last.k]
                     /\ game.enemies[last.k].move_intent = 0 )

\* two enemies and the player all at one point: an enemy has tried to flee
\* and the enemies were then to be separated, and nobody has moved
C29_Witness ==
    /\ calls = 2
    /\ last.step = "enemy_enemy"
    /\ SameCentre(last.before.enemies[1], last.before.enemies[2])
    /\ SameCentre(game.enemies[1], game.player)
    /\ PxOf(game.enemies[1].position) = PxOf(game.player.position)
    /\ game.enemies = last.before.enemies
    /\ game.enemies[1].move_intent = 0

\* ------------------------------------------------------------------------
\* Claims about the construction of enemies
\* ------------------------------------------------------------------------

\* C30: an enemy of the TANK type has, after construction, a speed of 0.7
\* times the speed handed to the constructor, and the archetype parameters of
\* its AI are detection 600, attack range 70, flee threshold 0.0, FOV 70
C30_TankSpeed ==
    \A k \in 1 .. Len(game.enemies) :
       game.enemies[k].enemy_type = "tank"
          => /\ game.enemies[k].speed_x1000 * 10 = 7 * (spawn_speed_x10 * 100)
             /\ BehaviorConfig(game.enemies[k].ai.behavior_type)
                   = [detection_range |-> 600, attack_range |-> 70,
                      flee_threshold_pct |-> 0, fov_degrees |-> 70,
                      vision_range |-> 600]

\* ------------------------------------------------------------------------
\* The Scheduler (engine/scheduler.py), frame based (use_real_time False):
\* tasks are added, cancelled by id, and update is called.  game holds the
\* Scheduler object; made counts the ScheduledTask objects constructed, and
\* the field uid of a task is its object identity.  A callback either does
\* nothing beyond being counted, or adds a further one-time task to the
\* scheduler it was given to.  calls counts the update calls, ops the tasks
\* added from outside; last keeps, for every task object, what it was added
\* with, the delta_time passed to update since, and how often it has run
\* ------------------------------------------------------------------------

\* tasks added from outside and update calls followed
MaxTasks == 2
MaxSchedulerCalls == 3

\* the delays and intervals tasks are added with and the delta_time passed
\* to update, in frames
TaskDelays == {1, 3}
TaskIntervals == {2}
DeltaTimes == {1, 2}

\* the delay of the task a callback adds
ChainDelay == 1

\* task_id: Optional[str] = None, and initial_delay: Optional[float] = None
NoTaskId == "None"
NoInitialDelay == 0 - 1

\* the ids callers pass
CallerTaskIds == {NoTaskId, "task_0"}

\* the callbacks handed to the scheduler
Callbacks == {[kind |-> "count"], [kind |-> "chain"]}

\* Scheduler.__init__
NewScheduler ==
    [pc |-> "scheduler", timed_tasks |-> << >>, frame_count |-> 0,
     task_id_counter |-> 0, made |-> 0]

InitScheduler ==
    /\ ai = InitAIRecord("aggressive")
    /\ entity = InitEntityRecord(0)
    /\ player = InitPlayerRecord(PlayerStart)
    /\ calls = 0
    /\ ops = 0
    /\ combat = [pc |-> "none"]
    /\ game = NewScheduler
    /\ last = [pc |-> "scheduler", added |-> << >>, elapsed |-> << >>,
               executions |-> << >>, ran |-> {}, cancelled |-> {},
               call |-> "none", task_id |-> NoTaskId, result |-> FALSE]

\* ScheduledTask.__init__
ScheduledTask(callback, delay, repeat, repeat_interval, task_id, uid) ==
    [callback |-> callback, delay |-> delay, initial_delay |-> delay,
     repeat |-> repeat, repeat_interval |-> repeat_interval,
     task_id |-> task_id, active |-> TRUE, execution_count |-> 0,
     uid |-> uid]

\* f"task_{self.task_id_counter}" and f"repeat_task_{self.task_id_counter}"
generated_id(prefix, n) == prefix \o ToString(n)

\* Scheduler.add_task(callback, delay, task_id)
add_task(s, callback, delay, task_id) ==
    [s EXCEPT
        !.timed_tasks =
            Append(@, ScheduledTask(callback, delay, FALSE, 0,
                                    IF task_id = NoTaskId
                                    THEN generated_id("task_", s.task_id_counter)
                                    ELSE task_id,
                                    s.made + 1)),
        !.task_id_counter = IF task_id = NoTaskId THEN @ + 1 ELSE @,
        !.made = @ + 1]

\* Scheduler.add_repeating_task(callback, interval, initial_delay, task_id)
add_repeating_task(s, callback, interval, initial_delay, task_id) ==
    [s EXCEPT
        !.timed_tasks =
            Append(@, ScheduledTask(callback,
                                    IF initial_delay # NoInitialDelay
                                    THEN initial_delay ELSE interval,
                                    TRUE, interval,
                                    IF task_id = NoTaskId
                                    THEN generated_id("repeat_task_", s.task_id_counter)
                                    ELSE task_id,
                                    s.made + 1)),
        !.task_id_counter = IF task_id = NoTaskId THEN @ + 1 ELSE @,
        !.made = @ + 1]

\* Scheduler.cancel_task, the loop from index k on: the first task with the
\* id is cancelled
RECURSIVE cancel_task(_, _, _)
cancel_task(tasks, task_id, k) ==
    IF k > Len(tasks) THEN [timed_tasks |-> tasks, result |-> FALSE]
    ELSE IF tasks[k].task_id = task_id
         THEN [timed_tasks |-> [tasks EXCEPT ![k].active = FALSE],
               result |-> TRUE]
         ELSE cancel_task(tasks, task_id, k + 1)

\* self.callback(): what the callback does to the scheduler
run_callback(s, callback) ==
    IF callback.kind = "chain"
    THEN add_task(s, [kind |-> "count"], ChainDelay, NoTaskId)
    ELSE s

\* ScheduledTask.execute of an active task
execute(task) ==
    IF task.repeat
    THEN [task EXCEPT !.execution_count = @ + 1, !.delay = task.repeat_interval]
    ELSE [task EXCEPT !.execution_count = @ + 1]

\* Scheduler.update, the body of the loop for the task at index k whose
\* delay has run out: it is executed, and listed for removal unless it
\* repeats
task_due(st, k, task) ==
    [st EXCEPT
        !.sched = run_callback([@ EXCEPT !.timed_tasks[k] = execute(task)],
                               task.callback),
        !.ran = @ \cup {task.uid},
        !.remove = IF task.repeat THEN @ ELSE @ \cup {task.uid}]

\* Scheduler.update, the body of the loop for the task at index k
update_task(st, k, task, delta_time) ==
    IF ~task.active THEN [st EXCEPT !.remove = @ \cup {task.uid}]
    ELSE IF task.delay - delta_time <= 0
         THEN task_due(st, k, [task EXCEPT !.delay = @ - delta_time])
         ELSE [st EXCEPT !.sched.timed_tasks[k].delay = @ - delta_time]

\* Scheduler.update, the loop over self.timed_tasks from index k on; the
\* iteration reaches the tasks appended to the list while it runs
RECURSIVE update_tasks(_, _, _)
update_tasks(st, k, delta_time) ==
    IF k > Len(st.sched.timed_tasks) THEN st
    ELSE update_tasks(update_task(st, k, st.sched.timed_tasks[k], delta_time),
                      k + 1, delta_time)

\* Scheduler.update: "Remove completed tasks"
remove_tasks(tasks, remove) ==
    LET Kept(task) == task.uid \notin remove
    IN  SelectSeq(tasks, Kept)

\* the log of a task object made by add_task or add_repeating_task
AddedRecord(task, in_update) ==
    [delay |-> task.initial_delay, repeat |-> task.repeat,
     task_id |-> task.task_id, in_update |-> in_update]

\* Scheduler.add_task(callback, delay, task_id) called from outside
AddTask(callback, delay, task_id) ==
    /\ ops < MaxTasks
    /\ ops' = ops + 1
    /\ game' = add_task(game, callback, delay, task_id)
    /\ last' = [last EXCEPT
                   !.added = Append(@, AddedRecord(
                                 game'.timed_tasks[Len(game'.timed_tasks)], FALSE)),
                   !.elapsed = Append(@, 0),
                   !.executions = Append(@, 0),
                   !.ran = {},
                   !.call = "add_task"]
    /\ UNCHANGED << ai, entity, player, calls, combat >>

\* Scheduler.add_repeating_task(callback, interval, initial_delay, task_id)
\* called from outside
AddRepeatingTask(callback, interval, initial_delay, task_id) ==
    /\ ops < MaxTasks
    /\ ops' = ops + 1
    /\ game' = add_repeating_task(game, callback, interval, initial_delay, task_id)
    /\ last' = [last EXCEPT
                   !.added = Append(@, AddedRecord(
                                 game'.timed_tasks[Len(game'.timed_tasks)], FALSE)),
                   !.elapsed = Append(@, 0),
                   !.executions = Append(@, 0),
                   !.ran = {},
                   !.call = "add_repeating_task"]
    /\ UNCHANGED << ai, entity, player, calls, combat >>

\* the task objects in the list that carry the id
UidsWithId(tasks, task_id) ==
    { tasks[k].uid : k \in { j \in 1 .. Len(tasks) : tasks[j].task_id = task_id } }

\* Scheduler.cancel_task(task_id)
CancelTask(task_id) ==
    /\ LET r == cancel_task(game.timed_tasks, task_id, 1)
       IN  /\ game' = [game EXCEPT !.timed_tasks = r.timed_tasks]
           /\ last' = [last EXCEPT
                          !.cancelled = IF r.result
                                        THEN @ \cup UidsWithId(game.timed_tasks, task_id)
                                        ELSE @,
                          !.ran = {},
                          !.call = "cancel_task",
                          !.task_id = task_id,
                          !.result = r.result]
    /\ UNCHANGED << ai, entity, player, calls, ops, combat >>

\* the task objects made while update ran (by callbacks), logged
RECURSIVE LogMade(_, _, _)
LogMade(log, tasks, made) ==
    IF Len(log.added) >= made THEN log
    ELSE LET task == CHOOSE t \in { tasks[k] : k \in 1 .. Len(tasks) } :
                         t.uid = Len(log.added) + 1
         IN  LogMade([log EXCEPT !.added = Append(@, AddedRecord(task, TRUE)),
                                 !.elapsed = Append(@, 0),
                                 !.executions = Append(@, 0)],
                     tasks, made)

\* the log after an update call: the tasks that were in the list when the
\* call began have seen its delta_time, the tasks that ran are counted
LogUpdate(log, st, delta_time) ==
    [LogMade(log, st.sched.timed_tasks, st.sched.made) EXCEPT
        !.elapsed = [i \in 1 .. Len(@) |->
                        IF i <= Len(log.elapsed) THEN @[i] + delta_time ELSE @[i]],
        !.executions = [i \in 1 .. Len(@) |->
                           IF i \in st.ran THEN @[i] + 1 ELSE @[i]],
        !.ran = st.ran,
        !.call = "update"]

\* Scheduler.update(delta_time)
Update(delta_time) ==
    /\ calls < MaxSchedulerCalls
    /\ calls' = calls + 1
    /\ LET st == update_tasks([sched |-> [game EXCEPT !.frame_count = @ + 1],
                               ran |-> {}, remove |-> {}], 1, delta_time)
       IN  /\ game' = [st.sched EXCEPT
                          !.timed_tasks = remove_tasks(@, st.remove)]
           /\ last' = LogUpdate(last, st, delta_time)
    /\ UNCHANGED << ai, entity, player, ops, combat >>

\* the ids in use, and one that is not
KnownTaskIds ==
    { game.timed_tasks[k].task_id : k \in 1 .. Len(game.timed_tasks) } \cup {"y"}

NextScheduler ==
    \/ \E callback \in Callbacks : \E delay \in TaskDelays :
       \E task_id \in CallerTaskIds :
          AddTask(callback, delay, task_id)
    \/ \E interval \in TaskIntervals :
       \E initial_delay \in {NoInitialDelay, 1} :
       \E task_id \in CallerTaskIds :
          AddRepeatingTask([kind |-> "count"], interval, initial_delay, task_id)
    \/ \E task_id \in KnownTaskIds : CancelTask(task_id)
    \/ \E delta_time \in DeltaTimes : Update(delta_time)

SpecScheduler == InitScheduler /\ [][NextScheduler]_vars

\* ------------------------------------------------------------------------
\* Claims about the Scheduler
\* ------------------------------------------------------------------------

\* the task object i is in the list of the scheduler
InTaskList(i) == i \in { game.timed_tasks[k].uid : k \in 1 .. Len(game.timed_tasks) }

\* the task object i was added by add_task and cancel_task never returned
\* True for its id while it was in the list
OneTimeNeverCancelled(i) ==
    /\ ~last.added[i].repeat
    /\ i \notin last.cancelled

\* the task object i has run exactly when the delta_time passed to update
\* since it was added has reached its delay, it has run once, and it has left
\* the list when it ran
RanWhenDue(i) ==
    /\ last.executions[i] = (IF last.elapsed[i] >= last.added[i].delay THEN 1 ELSE 0)
    /\ last.executions[i] = 1 => ~InTaskList(i)

\* C38: a one-time task added with add_task(callback, delay) and never
\* cancelled runs its callback exactly once, in the first update call at which
\* the delta_time values passed since it was added sum to delay or more, never
\* earlier, and is absent from the task list after that update
C38_RunsOnceWhenDue ==
    \A i \in 1 .. Len(last.added) : OneTimeNeverCancelled(i) => RanWhenDue(i)

\* a cancel_task call that returned False in this step
CancelReturnedFalse ==
    /\ last'.call = "cancel_task"
    /\ last' # last
    /\ ~last'.result

\* C39: after cancel_task(task_id) has returned True, no task that carried
\* the id, one-time or repeating, its id generated or passed by the caller,
\* runs its callback in a later update call, and the next update removes the
\* cancelled tasks from the list; cancel_task returns False only when no task
\* has the id, and changes nothing then
C39_CancelledNeverRuns ==
    /\ [](last.ran \cap last.cancelled = {})
    /\ [](last.call = "update" => \A i \in last.cancelled : ~InTaskList(i))
    /\ [][CancelReturnedFalse
             => /\ game' = game
                /\ UidsWithId(game.timed_tasks, last'.task_id) = {}]_vars

\* ------------------------------------------------------------------------
\* CombatSystem.perform_ranged_attack called repeatedly by one attacker on
\* one defender, with the two random rolls of perform_attack forced.  combat
\* holds the attacker's attack_power and attack_range, the defender's health
\* and what the call returned; last holds attacker and defender as they were
\* before the call and the distance passed; calls counts the calls
\* ------------------------------------------------------------------------

\* calls followed, the attack powers the attacker starts with, the health of
\* the defender
MaxRangedCalls == 3
MaxRangedPower == 12
RangedDefenderHealth == 200

\* attack_range of the attacker: the default of getattr(attacker,
\* 'attack_range', 200) and the range of an enemy
default_attack_range == 200
RangedAttackRanges == {default_attack_range, 70}

\* the distances passed to the call
RangedDistances == {0, 20, 50, 70, 100, 200, 250}

InitRanged ==
    /\ ai = InitAIRecord("aggressive")
    /\ entity = InitEntityRecord(0)
    /\ player = InitPlayerRecord(PlayerStart)
    /\ calls = 0
    /\ ops = 0
    /\ game = NoGame
    /\ \E ap \in 0 .. MaxRangedPower : \E range \in RangedAttackRanges :
          combat = [pc |-> "ranged", attack_power |-> ap, attack_range |-> range,
                    defense |-> 0, health |-> RangedDefenderHealth,
                    returned |-> "none", damage |-> 0]
    /\ last = [pc |-> "ranged", attack_power |-> 0, health |-> 0, distance |-> 0]

\* int(attack_power * range_multiplier) with
\* range_multiplier = 1.0 - (distance / max_range) * 0.3
falloff_power(attack_power, distance, max_range) ==
    (attack_power * (10 * max_range - 3 * distance)) \div (10 * max_range)

\* int(attack_power / range_multiplier)
restored_power(attack_power, distance, max_range) ==
    (attack_power * (10 * max_range)) \div (10 * max_range - 3 * distance)

\* CombatSystem.perform_ranged_attack: the attacker's attack_power, the
\* defender's health and the result after the call
perform_ranged_attack(attack_power, max_range, defense, health, distance, is_critical, is_blocked) ==
    IF distance > max_range
    THEN [attack_power |-> attack_power, health |-> health,
          returned |-> "None", damage |-> 0]
    ELSE LET r == perform_attack(falloff_power(attack_power, distance, max_range),
                                 defense, health, is_critical, is_blocked,
                                 "physical")
         IN  [attack_power |->
                  restored_power(falloff_power(attack_power, distance, max_range),
                                 distance, max_range),
              health |-> r.health, returned |-> "AttackResult",
              damage |-> r.damage]

\* CombatSystem.perform_ranged_attack(attacker, defender, distance)
PerformRangedAttack(distance, is_critical, is_blocked) ==
    /\ calls < MaxRangedCalls
    /\ calls' = calls + 1
    /\ last' = [pc |-> "ranged", attack_power |-> combat.attack_power,
                health |-> combat.health, distance |-> distance]
    /\ LET r == perform_ranged_attack(combat.attack_power, combat.attack_range,
                                      combat.defense, combat.health, distance,
                                      is_critical, is_blocked)
       IN  combat' = [combat EXCEPT !.attack_power = r.attack_power,
                                    !.health = r.health,
                                    !.returned = r.returned,
                                    !.damage = r.damage]
    /\ UNCHANGED << ai, entity, player, ops, game >>

NextRanged ==
    \E distance \in RangedDistances : \E c \in BOOLEAN : \E b \in BOOLEAN :
       PerformRangedAttack(distance, c, b)

SpecRanged == InitRanged /\ [][NextRanged]_vars

\* ------------------------------------------------------------------------
\* Claims about the ranged attack
\* ------------------------------------------------------------------------

\* C36: perform_ranged_attack restores the attacker's attack power: after a
\* call with a distance within the attack range, and after any number of
\* such calls, attack_power is what it was before the call; a call with a
\* distance beyond the attack range returns None and changes neither the
\* attacker nor the defender
C36_AttackPowerRestored ==
    calls > 0 =>
        IF last.distance <= combat.attack_range
        THEN /\ combat.returned = "AttackResult"
             /\ combat.attack_power = last.attack_power
        ELSE /\ combat.returned = "None"
             /\ combat.attack_power = last.attack_power
             /\ combat.health = last.health

\* ------------------------------------------------------------------------
\* The main loop of the application around the screens of the game
\* (main.py): handle_events, update and render are called in turn while the
\* game runs or shows the menu, the pause screen or the game-over screen.
\* game holds the Game object as far as the screens go: current_state,
\* is_running, pause_substate, debug_flags, which button rects render has
\* stored, and the call the loop makes next; last holds the events of the
\* last handle_events call and the Game as it was before it.  The gameplay
\* itself is reduced to whether the player is defeated in the tick; the
\* inventory overlay stays closed
\* ------------------------------------------------------------------------

\* iterations of the main loop followed and events in the queue of one
\* handle_events call
MaxFrames == 4
MaxEvents == 2

SCREEN_WIDTH == 1920
SCREEN_HEIGHT == 1080

DebugKeys == << "show_fps", "show_collision", "show_vision", "show_ai" >>

\* Game._render_menu: the Start and the Quit button
menu_start_rect == Rect(SCREEN_WIDTH \div 2 - 200 \div 2, SCREEN_HEIGHT \div 2 - 30, 200, 50)
menu_quit_rect == Rect(SCREEN_WIDTH \div 2 - 200 \div 2, SCREEN_HEIGHT \div 2 + 50, 200, 50)

\* Game._render_pause: the panel of the pause screen
pause_panel == Rect((SCREEN_WIDTH - 520) \div 2, (SCREEN_HEIGHT - 300) \div 2, 520, 300)

\* Game._compute_pause_buttons: button k of Resume, Debug, Quit
pause_button(k) ==
    Rect(pause_panel.x + (pause_panel.w - (150 * 3 + 20 * 2)) \div 2 + (150 + 20) * (k - 1),
         pause_panel.y + pause_panel.h - 80, 150, 44)

\* Game._render_debug_menu: the box of option k and the Back button
debug_box(k) == Rect(pause_panel.x + 24, pause_panel.y + 120 + 36 * (k - 1), 22, 22)
debug_back_rect ==
    Rect(pause_panel.x + pause_panel.w - 140, pause_panel.y + pause_panel.h - 60, 120, 36)

\* Game._render_game_over: the Restart and the Quit button
game_over_restart_rect == Rect(SCREEN_WIDTH \div 2 - 80, SCREEN_HEIGHT \div 2 + 20, 160, 48)
game_over_quit_rect == Rect(SCREEN_WIDTH \div 2 - 80, SCREEN_HEIGHT \div 2 + 80, 160, 48)

\* where the mouse is clicked: the centres of the buttons and a corner of
\* the screen
ClickPoints ==
    { CenterOf(menu_start_rect), CenterOf(menu_quit_rect),
      CenterOf(pause_button(1)), CenterOf(pause_button(2)), CenterOf(pause_button(3)),
      CenterOf(debug_box(1)), CenterOf(debug_back_rect),
      CenterOf(game_over_restart_rect), CenterOf(game_over_quit_rect),
      << 10, 10 >> }

\* the pygame events in the queue
Events ==
    {[type |-> "QUIT", key |-> "none", button |-> 0, pos |-> << 0, 0 >>]}
    \cup { [type |-> "KEYDOWN", key |-> k, button |-> 0, pos |-> << 0, 0 >>] :
              k \in {"K_ESCAPE", "K_q", "K_RETURN"} }
    \cup { [type |-> "MOUSEBUTTONDOWN", key |-> "none", button |-> 1, pos |-> p] :
              p \in ClickPoints }
    \cup {[type |-> "MOUSEBUTTONDOWN", key |-> "none", button |-> 3,
           pos |-> CenterOf(game_over_restart_rect)]}

EventQueues ==
    UNION { [1 .. n -> Events] : n \in 1 .. MaxEvents }

\* Game.__init__, and main.py marking the game as running in the menu
NewRunningGame ==
    [pc |-> "screens", current_state |-> "menu", is_running |-> TRUE,
     pause_substate |-> "None",
     debug_flags |-> [k \in 1 .. Len(DebugKeys) |-> FALSE],
     has_menu_rects |-> FALSE, has_debug_rects |-> FALSE,
     has_game_over_rects |-> FALSE,
     step |-> "handle_events", frames |-> 0]

InitScreens ==
    /\ ai = InitAIRecord("aggressive")
    /\ entity = InitEntityRecord(0)
    /\ player = InitPlayerRecord(PlayerStart)
    /\ calls = 0
    /\ ops = 0
    /\ combat = IdleCombat
    /\ game = NewRunningGame
    /\ last = [pc |-> "screens", events |-> << >>, before |-> NewRunningGame]

\* Game.pause
pause(g) ==
    IF g.current_state = "playing"
    THEN [g EXCEPT !.current_state = "paused", !.is_running = FALSE]
    ELSE g

\* Game.resume
resume(g) ==
    IF g.current_state = "paused"
    THEN [g EXCEPT !.current_state = "playing", !.is_running = TRUE]
    ELSE g

\* Game.end
end(g) == [g EXCEPT !.is_running = FALSE, !.current_state = "quit"]

\* Game._start_play, as far as the screens go
start_play(g) == [g EXCEPT !.current_state = "playing"]

\* the two ways the body of the event loop is left: on to the next event,
\* or out of handle_events
Continue(g) == [game |-> g, flow |-> "continue"]
Return(g) == [game |-> g, flow |-> "return"]

\* a left click
LeftClick(event) == event.type = "MOUSEBUTTONDOWN" /\ event.button = 1

\* handle_events: the option of the debug menu whose box the click is in, 0
\* if none
RECURSIVE debug_box_at(_, _)
debug_box_at(pos, k) ==
    IF k > Len(DebugKeys) THEN 0
    ELSE IF collidepoint(debug_box(k), pos) THEN k
    ELSE debug_box_at(pos, k + 1)

\* handle_events, "Game over screen mouse handling"
game_over_mouse(g, event) ==
    IF g.has_game_over_rects /\ LeftClick(event)
    THEN IF collidepoint(game_over_restart_rect, event.pos) THEN Return(start_play(g))
         ELSE IF collidepoint(game_over_quit_rect, event.pos) THEN Return(end(g))
         ELSE Continue(g)
    ELSE Continue(g)

\* handle_events, "Base pause menu buttons"
pause_buttons_mouse(g, event) ==
    IF collidepoint(pause_button(1), event.pos) THEN Return(resume(g))
    ELSE IF collidepoint(pause_button(2), event.pos)
         THEN Return([g EXCEPT !.pause_substate = "debug"])
    ELSE IF collidepoint(pause_button(3), event.pos) THEN Return(end(g))
    ELSE Continue(g)

\* handle_events, "If in debug substate, handle debug toggles", and the base
\* buttons after it
pause_click(g, event) ==
    IF g.pause_substate = "debug"
          /\ g.has_debug_rects /\ collidepoint(debug_back_rect, event.pos)
    THEN Return([g EXCEPT !.pause_substate = "None"])
    ELSE IF g.pause_substate = "debug"
               /\ g.has_debug_rects /\ debug_box_at(event.pos, 1) # 0
         THEN Return([g EXCEPT !.debug_flags[debug_box_at(event.pos, 1)] = ~@])
         ELSE pause_buttons_mouse(g, event)

\* handle_events, the block under "if self.current_state == 'paused'": the
\* pause menu mouse handling and, inside the same block, the game-over
\* mouse handling
paused_block(g, event) ==
    IF LeftClick(event) /\ pause_click(g, event).flow = "return"
    THEN pause_click(g, event)
    ELSE IF g.current_state = "game_over"
         THEN game_over_mouse(g, event)
         ELSE Continue(g)

\* handle_events, "Main menu mouse handling" and what follows it
mouse_handling(g, event) ==
    IF g.current_state = "menu" /\ LeftClick(event)
          /\ g.has_menu_rects /\ collidepoint(menu_start_rect, event.pos)
    THEN Return(start_play(g))
    ELSE IF g.current_state = "menu" /\ LeftClick(event)
               /\ g.has_menu_rects /\ collidepoint(menu_quit_rect, event.pos)
         THEN Return(end(g))
    ELSE IF g.current_state = "paused" THEN paused_block(g, event)
    ELSE Continue(g)

\* handle_events, the KEYDOWN branch
keydown(g, event) ==
    IF event.key = "K_ESCAPE" /\ g.current_state = "playing" THEN Continue(pause(g))
    ELSE IF event.key = "K_ESCAPE" /\ g.current_state = "paused" THEN Continue(resume(g))
    ELSE IF g.current_state = "paused"
         THEN IF event.key = "K_q" THEN Return(end(g)) ELSE Continue(g)
    ELSE mouse_handling(g, event)

\* handle_events, the body of the loop for one event
handle_event(g, event) ==
    IF event.type = "QUIT" THEN Return(end(g))
    ELSE IF event.type = "KEYDOWN" THEN keydown(g, event)
    ELSE mouse_handling(g, event)

\* Game.handle_events, the loop over the events from index k on
RECURSIVE handle_events(_, _, _)
handle_events(g, events, k) ==
    IF k > Len(events) THEN g
    ELSE IF handle_event(g, events[k]).flow = "return"
         THEN handle_event(g, events[k]).game
         ELSE handle_events(handle_event(g, events[k]).game, events, k + 1)

\* Game.update, with the key the input handler reports as held and whether
\* the enemies defeat the player in this tick
update_screens(g, key, player_defeated) ==
    IF ~g.is_running THEN g
    ELSE IF g.current_state = "menu"
         THEN IF key = "K_RETURN" THEN start_play(g)
              ELSE IF key = "K_q" THEN end(g)
              ELSE g
    ELSE IF g.current_state = "playing" /\ player_defeated
         THEN [g EXCEPT !.current_state = "game_over"]
    ELSE g

\* Game.render: the button rects of the screen shown are stored
render_screens(g) ==
    IF g.current_state = "menu" THEN [g EXCEPT !.has_menu_rects = TRUE]
    ELSE IF g.current_state = "paused" /\ g.pause_substate = "debug"
         THEN [g EXCEPT !.has_debug_rects = TRUE]
    ELSE IF g.current_state = "game_over" THEN [g EXCEPT !.has_game_over_rects = TRUE]
    ELSE g

\* main.py: the loop goes on
LoopRuns ==
    /\ game.frames < MaxFrames
    /\ game.is_running \/ game.current_state \in {"paused", "menu", "game_over"}

\* main.py: game.handle_events() with the events in the queue
HandleEvents(events) ==
    /\ LoopRuns
    /\ game.step = "handle_events"
    /\ game' = [handle_events(game, events, 1) EXCEPT !.step = "update"]
    /\ last' = [pc |-> "screens", events |-> events, before |-> game]
    /\ UNCHANGED << ai, entity, player, calls, ops, combat >>

\* main.py: game.update(dt)
UpdateFrame(key, player_defeated) ==
    /\ game.step = "update"
    /\ game' = [update_screens(game, key, player_defeated) EXCEPT !.step = "render"]
    /\ UNCHANGED << ai, entity, player, last, calls, ops, combat >>

\* main.py: game.render(game.screen)
RenderFrame ==
    /\ game.step = "render"
    /\ game' = [render_screens(game) EXCEPT !.step = "handle_events",
                                            !.frames = @ + 1]
    /\ UNCHANGED << ai, entity, player, last, calls, ops, combat >>

NextScreens ==
    \/ \E events \in EventQueues \cup {<< >>} : HandleEvents(events)
    \/ \E key \in {"none", "K_RETURN", "K_q"} : \E player_defeated \in BOOLEAN :
          UpdateFrame(key, player_defeated)
    \/ RenderFrame

SpecScreens == InitScreens /\ [][NextScreens]_vars

\* ------------------------------------------------------------------------
\* Claims about the screens
\* ------------------------------------------------------------------------

\* a left click at the centre of the rect
ClickAt(rect) ==
    [type |-> "MOUSEBUTTONDOWN", key |-> "none", button |-> 1, pos |-> CenterOf(rect)]

\* handle_events has just handled this one event on the game-over screen,
\* whose buttons have been rendered
HandledOnGameOver(event) ==
    /\ game.step = "update"
    /\ last.events = << event >>
    /\ last.before.current_state = "game_over"
    /\ last.before.has_game_over_rects

\* C37: on the game-over screen a left click on the Restart button, handled
\* by handle_events, starts a new play session (current_state becomes
\* "playing"), and a left click on the Quit button ends the game
C37_GameOverButtons ==
    /\ HandledOnGameOver(ClickAt(game_over_restart_rect))
          => game.current_state = "playing"
    /\ HandledOnGameOver(ClickAt(game_over_quit_rect))
          => game.current_state = "quit"

\* ------------------------------------------------------------------------
\* Claims about defeated attackers and the defeated player
\* ------------------------------------------------------------------------

\* the player has lost health in this tick
PlayerDamaged == game'.player.health < game.player.health

\* C34: an enemy whose health is <= 0 never deals damage to the player: in no
\* tick does the enemy-attack phase resolve an attack of an enemy that is not
\* alive, the tick in which the player's attack defeated it included
C34_DefeatedNeverAttacks ==
    [][\A k \in 1 .. Len(game.enemies) :
          game'.enemies[k].health <= 0
              => ~(EnemyAttackResolved(k) /\ PlayerDamaged)]_vars

\* ------------------------------------------------------------------------
\* Claims about the agent's obstacle resolution pass
\* ------------------------------------------------------------------------

\* C32: after the obstacle resolution pass at the end of Enemy.update, one
\* sweep over the obstacles in list order, the agent's rect overlaps no
\* obstacle of the list, wherever the obstacles are placed, adjacent walls
\* included
C32_NoOverlapAfterPass ==
    last.pc = "enemy" =>
        \A i \in 1 .. Len(last.walls) : ~colliderect(last.after.rect, last.walls[i])

\* ------------------------------------------------------------------------
\* Game.update with two enemies next to a player who has little health left
\* (the state after a long fight).  last holds the enemies' critical roll of
\* the last update call
\* ------------------------------------------------------------------------

\* update calls followed
MaxLastStandTicks == 3

\* the health the player has left
LastStandHealths == {5, 10, 20}

\* spawn points of the second enemy; the first stands two tiles left of the
\* player: one tile below the first, on the first, two tiles right of the
\* player
LastStandSpots == { << 352, 320 >>, << 352, 288 >>, << 480, 288 >> }

\* the state _start_play leaves, with two basic enemies spawned and the
\* player's health run down
InitLastStandRecord(spot, health) ==
    [InitGameRecord("basic", << 352, 288 >>, FALSE, 0) EXCEPT
        !.player.health = health,
        !.enemies = << NewEnemy("basic", spawn_health, spawn_damage, spawn_speed_x10,
                                << 352, 288 >>),
                       NewEnemy("basic", spawn_health, spawn_damage, spawn_speed_x10,
                                spot) >>]

InitLastStand ==
    /\ ai = InitAIRecord("aggressive")
    /\ entity = InitEntityRecord(0)
    /\ player = InitPlayerRecord(PlayerStart)
    /\ calls = 0
    /\ ops = 0
    /\ combat = IdleCombat
    /\ last = [pc |-> "laststand", enemy_crit |-> FALSE]
    /\ \E spot \in LastStandSpots : \E health \in LastStandHealths :
          game = InitLastStandRecord(spot, health)

\* Game.update(dt): nothing unless the game runs; the gameplay tick in state
\* "playing"; _update_game_over does nothing
game_update(g, keys, draw, enemy_crit) ==
    IF ~g.is_running THEN g
    ELSE IF g.current_state = "playing"
         THEN update_gameplay(g, keys, draw, FALSE, FALSE, enemy_crit)
         ELSE g

\* the keys held in an update call
LastStandKeyChoices == { NoKeys, [NoKeys EXCEPT !.w = TRUE] }

\* Game.update(dt), called in whatever state the game is in
LastStandUpdate(keys, draw, enemy_crit) ==
    /\ game.ticks < MaxLastStandTicks
    /\ game' = [game_update(game, keys, draw, enemy_crit) EXCEPT !.ticks = @ + 1]
    /\ last' = [last EXCEPT !.enemy_crit = enemy_crit]
    /\ UNCHANGED << ai, entity, player, calls, ops, combat >>

NextLastStand ==
    \E keys \in LastStandKeyChoices : \E draw \in GameWanderDraws(game) :
       \E enemy_crit \in EnemyCritRolls(game) :
          LastStandUpdate(keys, draw, enemy_crit)

SpecLastStand == InitLastStand /\ [][NextLastStand]_vars

\* what one attack of a spawned enemy takes from the player
EnemyHit(is_critical) ==
    calculate_damage(attack_base(spawn_damage, is_critical, FALSE), 0, "physical")

\* the enemies whose attack the combat phase of this tick has resolved
AttackersResolved == { k \in 1 .. Len(game.enemies) : EnemyAttackResolved(k) }

\* C35: once the player's health has reached <= 0 no further damage is
\* applied: the state becomes "game_over", the attacks resolved in the tick of
\* the defeat all but the last found the player alive, and no later update
\* call changes the player's health or an enemy
C35_NoDamageAfterDefeat ==
    /\ [][(game.player.health > 0 /\ game'.player.health <= 0)
             => /\ game'.current_state = "game_over"
                /\ (Cardinality(AttackersResolved) - 1) * EnemyHit(last'.enemy_crit)
                      < game.player.health]_vars
    /\ [][game.player.health <= 0
             => /\ game'.player.health = game.player.health
                /\ game'.enemies = game.enemies]_vars


\* ------------------------------------------------------------------------
\* Game.update with an enemy standing at the top border wall and the player
\* below it, walking up
\* ------------------------------------------------------------------------

\* update calls followed
MaxBorderTicks == 11

\* where the player stands, facing up (270 degrees): min_distance (53) or a
\* little more below the enemy
BorderPlayerStarts == { << 416, 99 >>, << 416, 100 >> }

\* where the enemy stands, its rect touching the top border wall: in the
\* player's column, or one tile to the right of it
BorderEnemySpots == { << 416, 46 >>, << 448, 46 >> }

\* the state of a game in which the player has come up to an enemy that
\* stands at the top border wall
InitBorderRecord(enemy_type, start, spot) ==
    [InitGameRecord(enemy_type, spot, FALSE, 270) EXCEPT
        !.player = InitGamePlayer(start, 270)]

InitBorder ==
    /\ ai = InitAIRecord("aggressive")
    /\ entity = InitEntityRecord(0)
    /\ player = InitPlayerRecord(PlayerStart)
    /\ calls = 0
    /\ ops = 0
    /\ combat = IdleCombat
    /\ last = [pc |-> "border", keys |-> NoKeys]
    /\ \E start \in BorderPlayerStarts : \E spot \in BorderEnemySpots :
          game = InitBorderRecord("basic", start, spot)

\* the keys held in an update call: none, or forward with sprint
BorderKeyChoices == { NoKeys, [NoKeys EXCEPT !.w = TRUE, !.shift = TRUE] }

\* Game.update(dt) with dt = 1 / FRAME_RATE
BorderUpdate(keys, draw, enemy_crit) ==
    /\ game.ticks < MaxBorderTicks
    /\ game' = [game_update(game, keys, draw, enemy_crit) EXCEPT !.ticks = @ + 1]
    /\ last' = [last EXCEPT !.keys = keys]
    /\ UNCHANGED << ai, entity, player, calls, ops, combat >>

NextBorder ==
    \E keys \in BorderKeyChoices : \E draw \in GameWanderDraws(game) :
       \E enemy_crit \in EnemyCritRolls(game) :
          BorderUpdate(keys, draw, enemy_crit)

SpecBorder == InitBorder /\ [][NextBorder]_vars

\* min + half_size <= position <= max - half_size on both axes, the position
\* in thousandths of a pixel
WithinBounds(position, size, bounds) ==
    LET half_size == size \div 2
    IN  /\ MilliOf(<< bounds.min_x + half_size, bounds.min_y + half_size >>)[1] <= position[1]
        /\ position[1] <= MilliOf(<< bounds.max_x - half_size, bounds.max_y - half_size >>)[1]
        /\ MilliOf(<< bounds.min_x + half_size, bounds.min_y + half_size >>)[2] <= position[2]
        /\ position[2] <= MilliOf(<< bounds.max_x - half_size, bounds.max_y - half_size >>)[2]

\* C33: at the end of every tick each live body lies inside the world bounds,
\* min + half_size <= position <= max - half_size on both axes, for the
\* player and for every enemy in the list that is alive, also after the wall
\* pushes and the separation pushes of the tick
C33_BodiesWithinBounds ==
    /\ WithinBounds(game.player.position, game.player.size, world_bounds)
    /\ \A k \in 1 .. Len(game.enemies) :
          (game.enemies[k].listed /\ game.enemies[k].health > 0)
             => WithinBounds(game.enemies[k].position, game.enemies[k].size,
                             world_bounds)


\* ------------------------------------------------------------------------
\* Enemy.update called tick after tick on one enemy that faces a player who
\* stands still in the open, the border walls being the only obstacles.
\* last holds the point the enemy started from and the parity of the frame
\* ------------------------------------------------------------------------

\* how far from the player the enemy starts, along an axis (pixels)
ChaseStartDistance == 100

\* how far from the player the enemy starts on each axis, on a diagonal
ChaseStartDiagonal == 70

\* where the enemy starts, as an offset from the player: on the four axes and
\* on the four diagonals
ChaseOffsets ==
    { << ChaseStartDistance, 0 >>, << -ChaseStartDistance, 0 >>,
      << 0, ChaseStartDistance >>, << 0, -ChaseStartDistance >>,
      << ChaseStartDiagonal, ChaseStartDiagonal >>,
      << -ChaseStartDiagonal, -ChaseStartDiagonal >>,
      << ChaseStartDiagonal, -ChaseStartDiagonal >>,
      << -ChaseStartDiagonal, ChaseStartDiagonal >> }

\* an enemy constructed at the offset from the player, turned to the player
InitChaseRecord(enemy_type, offset) ==
    LET spot == << GamePlayerStart[1] + offset[1], GamePlayerStart[2] + offset[2] >>
        g    == InitGameRecord(enemy_type, spot, FALSE, 0)
    IN  [g EXCEPT !.enemies[1].direction_angle = Atan2Deg(-offset[2], -offset[1]),
                  !.enemies[1].desired_angle = Atan2Deg(-offset[2], -offset[1])]

InitChase ==
    /\ ai = InitAIRecord("aggressive")
    /\ entity = InitEntityRecord(0)
    /\ player = InitPlayerRecord(PlayerStart)
    /\ calls = 0
    /\ ops = 0
    /\ combat = IdleCombat
    /\ \E enemy_type \in SpawnTypes : \E offset \in ChaseOffsets :
          /\ game = InitChaseRecord(enemy_type, offset)
          /\ last = [pc |-> "chase", frame |-> 0,
                     start |-> << GamePlayerStart[1] + offset[1],
                                  GamePlayerStart[2] + offset[2] >>]

\* enemy.update(player, dt, obstacles = walls, bounds = world_bounds) with
\* dt = 1 / FRAME_RATE, the player standing still
ChaseUpdate(draw) ==
    /\ last.pc = "chase"
    /\ last' = [last EXCEPT !.frame = 1 - @]
    /\ game' = [game EXCEPT !.enemies[1] =
                   enemy_update(game.enemies[1], PxOf(game.player.position),
                                GameWalls, world_bounds, draw[1], draw[2])]
    /\ UNCHANGED << ai, entity, player, calls, ops, combat >>

NextChase == \E draw \in WanderAngles \X WanderDistances : ChaseUpdate(draw)

SpecChase == InitChase /\ [][NextChase]_vars

\* the step from one frame to the next, which every ChaseUpdate takes and no
\* other step of SpecChase does
NextFrame == last' = [last EXCEPT !.frame = 1 - @]

\* the main loop calls the update in every frame: the step to the next frame
\* is always possible and is taken again and again
SpecChaseFair == SpecChase /\ WF_last(NextFrame)


\* the squared distance, in whole pixels, between the enemy and the player
\* (Enemy.update leaves the enemy on a whole pixel, the centre of its rect)
ChaseDistSq ==
    (game.player.position[1] \div Milli - game.enemies[1].position[1] \div Milli) ^ 2
    + (game.player.position[2] \div Milli - game.enemies[1].position[2] \div Milli) ^ 2

\* the squared distance between the enemy's starting point and the player
ChaseStartDistSq ==
    (game.player.position[1] \div Milli - last.start[1]) ^ 2
    + (game.player.position[2] \div Milli - last.start[2]) ^ 2

\* the enemy is nearer to the player than the point it started from
ChaseCloser == ChaseDistSq < ChaseStartDistSq

\* the enemy is within its attack range of the player
ChaseWithinAttackRange == ChaseDistSq <= game.enemies[1].attack_range ^ 2

\* the enemy has not left CHASE for a state other than ATTACK since its first
\* update
ChaseStays == game.enemies[1].ai.state \in {"idle", "chase", "attack"}

\* C31: an enemy that stays in CHASE facing a stationary, visible player across
\* open space, the obstacle list non-empty elsewhere and dt = 1 / FRAME_RATE,
\* makes progress whatever the direction of the player: its distance to the
\* player eventually becomes strictly smaller than at the start, and it
\* eventually comes within attack range
C31_ChaseAdvances ==
    /\ <>(ChaseCloser \/ ~ChaseStays)
    /\ <>(ChaseWithinAttackRange \/ ~ChaseStays)

====
